---- MODULE Spec2Model ----
(***************************************************************************)
(* Linearization / delinearization of schema-guided dialogues.             *)
(*                                                                         *)
(* Three programs of the repository are modelled, each as a state machine  *)
(* over the same variables (the variables of the programs that do not run  *)
(* stay at their initial value):                                           *)
(*   prog = "sgd"  the SGD linearizer  (create_sgd_schemaless_data.py)     *)
(*   prog = "mw"   the MultiWOZ linearizers (TRADE and non-TRADE)          *)
(*   prog = "dec"  the prediction decoder (convert_sgd_t5x_sdt_preds_...)  *)
(* Text is modelled as TLA+ strings: rendering concatenates, parsing       *)
(* scans characters.  All schema and dialogue text drawn below is already  *)
(* lower-case, so str.lower() is the identity on it and is not modelled.   *)
(***************************************************************************)
EXTENDS Integers, Sequences, FiniteSets, TLC

VARIABLES
    prog,                \* which program this run is
    pc,                  \* "run" | "error" | "written"
    error,               \* the exception that ended the run ("" if none)
    config,              \* CliConfig / Options of the run
    possible_values,     \* item_desc.possible_values (a dict of lists, mutable)
    cumu_slots,          \* CumulativeSlotState of the dialogue being processed
    turn_info,           \* the TurnInfo accumulator of the dialogue
    prefix,              \* item-description prefix returned by the last turn
    dialogue_no,         \* number of dialogues started
    turns_done,          \* number of turns processed in the whole run
    turn_idx,            \* index of the next turn of the current dialogue
    turn,                \* the turn last handed to process_turn
    frame_locals,        \* per frame of that turn: what its locals ended with
    all_turns_per_frame, \* the TurnInfo copies collected by generate_data
    examples,            \* what write_examples / create_schemaless_data emitted
    mw,                  \* MultiWOZ: the dialogue loop's state
    dec                  \* decoder: dialog_id_to_dialogue, the line last read

vars == <<prog, pc, error, config, possible_values, cumu_slots, turn_info, prefix,
          dialogue_no, turns_done, turn_idx, turn, frame_locals,
          all_turns_per_frame, examples, mw, dec>>

sgdVars == <<possible_values, cumu_slots, turn_info, prefix, dialogue_no,
             turns_done, turn_idx, turn, frame_locals, all_turns_per_frame>>

-----------------------------------------------------------------------------
(* Bounds of the model *)

\* turns handed to process_turn in one run (over all dialogues)
MaxTurns == 2
\* dialogues of the input file
MaxDialogues == 2
\* lines of the predictions file the decoder reads
MaxPredictions == 2
\* the options a categorical slot of the schema has at most
MaxOptions == 27

-----------------------------------------------------------------------------
(* Python string and list primitives *)

\* a in b (substring test)
IsSubstr(a, b) ==
    \E i \in 1..(Len(b) - Len(a) + 1) : SubSeq(b, i, i + Len(a) - 1) = a

\* the positions at which sub occurs in s
Occurrences(sub, s) ==
    { i \in 1..(Len(s) - Len(sub) + 1) : SubSeq(s, i, i + Len(sub) - 1) = sub }

\* s.find(sub) + 1 (0 when absent)
Find(sub, s) ==
    IF Occurrences(sub, s) = {} THEN 0
    ELSE CHOOSE i \in Occurrences(sub, s) : \A j \in Occurrences(sub, s) : i <= j

\* what " ".join(s.split()) keeps of the i-th character of s: every character
\* that is not a space, and one space for a run of spaces between two words
\* (the only whitespace in the text modelled is " ")
KeptChar(s, i) ==
    IF SubSeq(s, i, i) # " " THEN SubSeq(s, i, i)
    ELSE IF /\ i > 1
            /\ SubSeq(s, i - 1, i - 1) # " "
            /\ \E j \in (i + 1)..Len(s) : SubSeq(s, j, j) # " "
    THEN " " ELSE ""

\* what " ".join(s.split()) keeps of s[lo-1:hi]
RECURSIVE CollapseRange(_, _, _)
CollapseRange(s, lo, hi) ==
    IF lo > hi THEN ""
    ELSE IF lo = hi THEN KeptChar(s, lo)
    ELSE CollapseRange(s, lo, (lo + hi) \div 2)
         \o CollapseRange(s, (lo + hi) \div 2 + 1, hi)

\* s.replace(old, new)
RECURSIVE Replace(_, _, _)
Replace(s, old, new) ==
    LET i == Find(old, s)
    IN  IF i = 0 THEN s
        ELSE SubSeq(s, 1, i - 1) \o new \o Replace(SubSeq(s, i + Len(old), Len(s)), old, new)

\* the positions of the characters of s that are not spaces
NonSpaces(s) == { i \in 1..Len(s) : SubSeq(s, i, i) # " " }

\* s.strip() (the only whitespace in the text modelled is " ")
Strip(s) ==
    IF NonSpaces(s) = {} THEN ""
    ELSE SubSeq(s, CHOOSE i \in NonSpaces(s) : \A j \in NonSpaces(s) : i <= j,
                   CHOOSE i \in NonSpaces(s) : \A j \in NonSpaces(s) : j <= i)

\* s.split(sep)
RECURSIVE Split(_, _)
Split(s, sep) ==
    IF Find(sep, s) = 0 THEN <<s>>
    ELSE <<SubSeq(s, 1, Find(sep, s) - 1)>>
         \o Split(SubSeq(s, Find(sep, s) + Len(sep), Len(s)), sep)

\* s.split(sep)[0]
SplitHead(s, sep) ==
    IF Find(sep, s) = 0 THEN s ELSE SubSeq(s, 1, Find(sep, s) - 1)

\* sep.join(list)
RECURSIVE Join(_, _)
Join(sep, list) ==
    IF list = <<>> THEN ""
    ELSE IF Len(list) = 1 THEN list[1]
    ELSE list[1] \o sep \o Join(sep, Tail(list))

\* "".join(list)
Concat(list) == Join("", list)

\* list.index(x) + 1
IndexOf(x, list) == CHOOSE i \in 1..Len(list) : list[i] = x /\ \A j \in 1..(i - 1) : list[j] # x

InList(x, list) == \E i \in 1..Len(list) : list[i] = x

\* string.ascii_lowercase
ascii_lowercase == "abcdefghijklmnopqrstuvwxyz"

\* list(string.ascii_lowercase)[i - 1]
Letter(i) == SubSeq(ascii_lowercase, i, i)

IsDigitChar(c) == c \in {"0", "1", "2", "3", "4", "5", "6", "7", "8", "9"}

\* str.isdigit()
IsDigit(s) == Len(s) > 0 /\ \A i \in 1..Len(s) : IsDigitChar(SubSeq(s, i, i))

\* the list without its i-th item
RemoveAt(list, i) == SubSeq(list, 1, i - 1) \o SubSeq(list, i + 1, Len(list))

\* the permutations of a list (the outcomes of random.shuffle)
RECURSIVE Permutations_(_)
Permutations_(list) ==
    IF list = <<>> THEN { <<>> }
    ELSE UNION { { <<list[i]>> \o p : p \in Permutations_(RemoveAt(list, i)) } :
                   i \in 1..Len(list) }

\* the lists that take their k-th item from the k-th set
RECURSIVE ListsOver(_)
ListsOver(sets) ==
    IF sets = <<>> THEN { <<>> }
    ELSE { <<h>> \o t : h \in Head(sets), t \in ListsOver(Tail(sets)) }

-----------------------------------------------------------------------------
(* The SGD schema file and load_schema *)

\* the services of schema.json, in declaration order
RawSchema ==
    << [service_name |-> "h1",
        slots |-> << [name |-> "area", description |-> "part of town",
                      is_categorical |-> TRUE, possible_values |-> <<"east", "west">>] >>,
        intents |-> << [name |-> "find", description |-> "find a hotel"] >>],
       [service_name |-> "h11",
        slots |-> << [name |-> "inn", description |-> "name of inn",
                      is_categorical |-> FALSE, possible_values |-> <<>>] >>,
        intents |-> <<>>],
       [service_name |-> "t1",
        slots |-> << [name |-> "day", description |-> "day of travel",
                      is_categorical |-> FALSE, possible_values |-> <<>>],
                     [name |-> "seats", description |-> "number of seats",
                      is_categorical |-> TRUE, possible_values |-> <<"1", "2">>] >>,
        intents |-> << [name |-> "buy", description |-> "buy a ticket"] >>] >>

_merge_domain_slot(domain, slot_name) == domain \o "-" \o slot_name

\* the items of kind `field` of all services, domain-qualified, in file order
RECURSIVE SchemaItems(_, _)
SchemaItems(schema, field) ==
    IF schema = <<>> THEN <<>>
    ELSE [i \in 1..Len(Head(schema)[field]) |->
            [Head(schema)[field][i] EXCEPT
                !.name = _merge_domain_slot(Head(schema).service_name, @)]]
         \o SchemaItems(Tail(schema), field)

\* NumericCategorical had no slot been taken for numeric
NeverNumeric(slot) == FALSE

\* a categorical slot whose possible values are all numeric is a noncat slot
NumericCategorical(slot) ==
    slot.is_categorical /\ \A i \in 1..Len(slot.possible_values) : IsDigit(slot.possible_values[i])

\* the item called n
ItemNamed(items, n) == items[CHOOSE i \in 1..Len(items) : items[i].name = n]

\* the SchemaInfo built from the domain-qualified slots and intents
SchemaInfo(slots, intents) ==
    [ordered_slots |-> [n \in {slots[i].name : i \in 1..Len(slots)} |-> ""],
     slot_keys |-> [i \in 1..Len(slots) |-> slots[i].name],
     slots |-> [n \in {slots[i].name : i \in 1..Len(slots)} |->
                  ItemNamed(slots, n).description],
     is_categorical |->
        [n \in {slots[i].name : i \in 1..Len(slots)} |->
            ItemNamed(slots, n).is_categorical /\ ~NumericCategorical(ItemNamed(slots, n))],
     possible_values |->
        [n \in {slots[i].name : i \in 1..Len(slots)} |->
            IF NumericCategorical(ItemNamed(slots, n)) THEN <<>>
            ELSE ItemNamed(slots, n).possible_values],
     intent_keys |-> [i \in 1..Len(intents) |-> intents[i].name],
     intents |-> [n \in {intents[i].name : i \in 1..Len(intents)} |->
                    ItemNamed(intents, n).description]]

\* load_schema: (slots, item_desc)
load_schema == SchemaInfo(SchemaItems(RawSchema, "slots"), SchemaItems(RawSchema, "intents"))

item_desc == load_schema

-----------------------------------------------------------------------------
(* _process_user_turn *)
(* The operators below pass along a record st of everything process_turn   *)
(* and the functions it calls read and update: err (the exception raised,  *)
(* "" if none), ti (turn_info), cumu (cumu_slots), pv                      *)
(* (item_desc.possible_values), state_dict, desc_to_slot_id, slot_id,      *)
(* intent_id, user_turn_prefix, per_frame (turn_info_per_frame) and locals *)
(* (the state_dict, desc_to_slot_id and cumu_slots each frame ended with). *)

\* TurnInfo() as generate_data constructs it
NewTurnInfo(dialogue_id) ==
    [out_ctx_str |-> "", out_ctx_with_desc_str |-> "", out_state_str |-> "",
     out_act_str |-> "", prev_state_str |-> "", out_intent_str |-> "",
     curr_utt |-> "", user_turn |-> FALSE, turn_domain |-> "",
     dialogue_id |-> dialogue_id, turn_id |-> "", frame_id |-> ""]

\* FrameState()
NewFrameState == [slot_desc |-> <<>>, intent_desc |-> <<>>, intent_ids |-> <<>>,
                  req_slots |-> <<>>]

\* the empty dict
EmptyDict == [n \in {} |-> 0]

\* " | ".join(value)
JoinValues(value) == Join(" | ", value)

\* StoreSlot had it kept the value a slot already has (first writer wins)
StoreSlotOnce(cumu, slot, value) ==
    IF cumu[slot] = "" THEN [cumu EXCEPT ![slot] = Join(" | ", value)] ELSE cumu

\* StoreSlot had it added the new values to the ones the slot already has
StoreSlotAppend(cumu, slot, value) ==
    [cumu EXCEPT ![slot] = IF @ = "" THEN Join(" | ", value)
                           ELSE @ \o " | " \o Join(" | ", value)]

\* cumu_slots.update({slot: " | ".join(value)})
StoreSlot(cumu, slot, value) == [cumu EXCEPT ![slot] = JoinValues(value)]

\* MergeSlotValues had it skipped the slots the schema does not have
RECURSIVE MergeKnownSlots(_, _, _)
MergeKnownSlots(domain, slot_values, st) ==
    IF slot_values = <<>> THEN st
    ELSE IF _merge_domain_slot(domain, Head(slot_values)[1]) \notin DOMAIN st.cumu
    THEN MergeKnownSlots(domain, Tail(slot_values), st)
    ELSE MergeKnownSlots(domain, Tail(slot_values),
            [st EXCEPT !.cumu = StoreSlot(@, _merge_domain_slot(domain, Head(slot_values)[1]),
                                          Head(slot_values)[2])])

\* the loop that merges the frame's slot_values into cumu_slots;
\* slot_values is the dict as its list of (slot, values) items
RECURSIVE MergeSlotValues(_, _, _)
MergeSlotValues(domain, slot_values, st) ==
    IF slot_values = <<>> THEN st
    ELSE IF _merge_domain_slot(domain, Head(slot_values)[1]) \notin DOMAIN st.cumu
    THEN [st EXCEPT !.err = "ValueError: Unknown slot"]
    ELSE MergeSlotValues(domain, Tail(slot_values),
            [st EXCEPT !.cumu = StoreSlot(@, _merge_domain_slot(domain, Head(slot_values)[1]),
                                          Head(slot_values)[2])])

\* "Only consider slots in the utterance domain."
InUtteranceDomain(domain, slot) == IsSubstr(domain, SplitHead(slot, "-"))

\* "Only consider slots in the utterance domain." (the intents' test)
IntentInUtteranceDomain(domain, intent) == IsSubstr(domain, intent)

\* is the multiple choice prompt generated for this slot
UsesMultipleChoice(cfg, slot) ==
    cfg.multiple_choice # "none" /\ item_desc.is_categorical[slot]

\* one piece of the enumeration of a slot's possible values
OptionPiece(cfg, slot_id, letter, value) ==
    IF cfg.multiple_choice = "1a" THEN ToString(slot_id) \o letter \o ") " \o value
    ELSE letter \o ") " \o value

\* zip(letters, possible_values) stops at the shorter list
ZipLength(pvs) == IF Len(pvs) < Len(ascii_lowercase) THEN Len(pvs) ELSE Len(ascii_lowercase)

\* desc + " " + " ".join(possible_values_pieces)
WithOptions(cfg, desc, slot_id, pvs) ==
    desc \o " " \o
    Join(" ", [i \in 1..ZipLength(pvs) |-> OptionPiece(cfg, slot_id, Letter(i), pvs[i])])

\* the description of a schema item under config.data_format
ItemDescription(cfg, descriptions, item) ==
    IF cfg.data_format = "full_desc" THEN descriptions[item] ELSE item

\* desc of a slot, with its options when mc holds
SlotDescription(cfg, slot, slot_id, mc, pvs) ==
    IF mc THEN WithOptions(cfg, ItemDescription(cfg, item_desc.slots, slot), slot_id, pvs)
    ELSE ItemDescription(cfg, item_desc.slots, slot)

\* " {slot_id}{delimiter}"
SlotPrefix(cfg, slot_id) == " " \o ToString(slot_id) \o cfg.delimiter

\* str(slot_id) + letters[possible_values.index(value)]
OptionReference(cfg, slot_id, pvs, value) ==
    ToString(slot_id) \o Letter(IndexOf(value, pvs))

\* StateStr without the test `if cumu_slots[slot]`
StateStrAlways(cfg, mc, slot_id, value, pvs) ==
    " " \o ToString(slot_id) \o cfg.delimiter \o value

\* state_str of a slot of the utterance domain ("" if it is not active)
StateStr(cfg, mc, slot_id, value, pvs) ==
    IF value = "" THEN ""
    ELSE IF mc /\ value # "dontcare"
         THEN SlotPrefix(cfg, slot_id) \o OptionReference(cfg, slot_id, pvs, value)
         ELSE SlotPrefix(cfg, slot_id) \o value

\* NextId without the increment
SameId(id) == id

\* slot_id += 1
NextId(id) == id + 1

\* item_desc.possible_values[slot] as the iteration for slot leaves it:
\* shuffled in place when the slot gets the multiple choice prompt
ShuffledValues(cfg, slot, rnd, st) ==
    IF cfg.randomize_items /\ UsesMultipleChoice(cfg, slot) THEN rnd.pv[slot]
    ELSE st.pv[slot]

\* the body of `if domain in slot.split("-")[0]`
RenderSlot(cfg, domain, slot, mc, pvs, st) ==
    [st EXCEPT
        !.desc_to_slot_id = (slot :> st.slot_id) @@ @,
        !.state_dict.slot_desc =
            Append(@, SlotPrefix(cfg, st.slot_id)
                      \o SlotDescription(cfg, slot, st.slot_id, mc, pvs) \o " "),
        !.ti.out_state_str = @ \o StateStr(cfg, mc, st.slot_id, st.cumu[slot], pvs),
        !.ti.turn_domain = domain,
        !.slot_id = NextId(@)]

\* one iteration of `for slot in slots`; mc: the slot gets the multiple choice
\* prompt, pvs: its possible values in the order they have in this iteration
SlotStep(cfg, domain, slot, mc, pvs, st) ==
    IF mc /\ ~(Len(pvs) < Len(ascii_lowercase))
    THEN [st EXCEPT !.err = "AssertionError", !.pv[slot] = pvs]
    ELSE IF ~InUtteranceDomain(domain, slot)
    THEN [st EXCEPT !.pv[slot] = pvs]
    ELSE IF /\ mc
            /\ st.cumu[slot] # ""
            /\ st.cumu[slot] # "dontcare"
            /\ ~InList(st.cumu[slot], pvs)
    THEN [st EXCEPT !.err = "AssertionError", !.pv[slot] = pvs]
    ELSE RenderSlot(cfg, domain, slot, mc, pvs, [st EXCEPT !.pv[slot] = pvs])

\* for slot in slots
RECURSIVE SlotLoop(_, _, _, _, _)
SlotLoop(cfg, domain, slots, rnd, st) ==
    IF slots = <<>> \/ st.err # "" THEN st
    ELSE SlotLoop(cfg, domain, Tail(slots), rnd,
            SlotStep(cfg, domain, Head(slots), UsesMultipleChoice(cfg, Head(slots)),
                     ShuffledValues(cfg, Head(slots), rnd, st), st))

\* " i{intent_id}{delimiter}"
IntentPrefix(cfg, intent_id) == " i" \o ToString(intent_id) \o cfg.delimiter

\* intent_str = " " + t[:-1]
IntentStr(t) == " " \o SubSeq(t, 1, Len(t) - 1)

\* one iteration of `for intent in intents` for an intent of the utterance domain
IntentStep(cfg, state, domain, intent, st) ==
    [st EXCEPT
        !.state_dict.intent_desc =
            Append(@, IntentPrefix(cfg, st.intent_id)
                      \o ItemDescription(cfg, item_desc.intents, intent) \o " "),
        !.state_dict.intent_ids =
            IF domain \o "-" \o state.active_intent = intent
            THEN Append(@, IntentStr(IntentPrefix(cfg, st.intent_id))) ELSE @,
        !.intent_id = NextId(@)]

\* for intent in intents
RECURSIVE IntentLoop(_, _, _, _, _)
IntentLoop(cfg, state, domain, intents, st) ==
    IF intents = <<>> \/ st.err # "" THEN st
    ELSE IF IntentInUtteranceDomain(domain, Head(intents))
    THEN IntentLoop(cfg, state, domain, Tail(intents),
                    IntentStep(cfg, state, domain, Head(intents), st))
    ELSE IntentLoop(cfg, state, domain, Tail(intents), st)

\* RequestedLoop had it skipped the requested slots without id instead of
\* asserting that they have one
RequestedKnown(domain, requested_slots, st) ==
    IF st.err # "" THEN st
    ELSE [st EXCEPT !.state_dict.req_slots =
            @ \o [j \in 1..Len(SelectSeq(requested_slots,
                                LAMBDA r : domain \o "-" \o r \in DOMAIN st.desc_to_slot_id)) |->
                    ToString(st.desc_to_slot_id[domain \o "-" \o
                        SelectSeq(requested_slots,
                            LAMBDA r : domain \o "-" \o r \in DOMAIN st.desc_to_slot_id)[j]])]]

\* for req_slot in state["requested_slots"]
RECURSIVE RequestedLoop(_, _, _)
RequestedLoop(domain, requested_slots, st) ==
    IF requested_slots = <<>> \/ st.err # "" THEN st
    ELSE IF domain \o "-" \o Head(requested_slots) \notin DOMAIN st.desc_to_slot_id
    THEN [st EXCEPT !.err = "AssertionError"]
    ELSE RequestedLoop(domain, Tail(requested_slots),
            [st EXCEPT !.state_dict.req_slots =
                Append(@, ToString(st.desc_to_slot_id[domain \o "-" \o Head(requested_slots)]))])

\* the order in which the schema items are visited
ItemOrder(cfg, keys, shuffled) == IF cfg.randomize_items THEN shuffled ELSE keys

\* UserTurnLocals had it gone on from the ids of the frames before
UserTurnLocalsContinue(st) == [st EXCEPT !.desc_to_slot_id = EmptyDict]

\* desc_to_slot_id = {}; slot_id = len(state_dict.slot_desc);
\* intent_id = len(state_dict.intent_desc)
UserTurnLocals(st) ==
    [st EXCEPT !.desc_to_slot_id = EmptyDict,
               !.slot_id = Len(st.state_dict.slot_desc),
               !.intent_id = Len(st.state_dict.intent_desc)]

\* _process_user_turn(config, state, turn_info, cumu_slots, domain, item_desc,
\* state_dict); rnd holds the outcomes of the random.shuffle calls of this call
_process_user_turn(cfg, state, domain, rnd, st) ==
    RequestedLoop(domain, state.requested_slots,
        IntentLoop(cfg, state, domain, ItemOrder(cfg, item_desc.intent_keys, rnd.intents),
            SlotLoop(cfg, domain, ItemOrder(cfg, item_desc.slot_keys, rnd.slots), rnd,
                UserTurnLocals(MergeSlotValues(domain, state.slot_values, st)))))

-----------------------------------------------------------------------------
(* _process_agent_turn *)

\* acts[act] after one more action; acts is the dict as its list of items
AddAct(acts, act, params) ==
    IF \E i \in 1..Len(acts) : acts[i][1] = act
    THEN [i \in 1..Len(acts) |->
            IF acts[i][1] = act THEN <<act, acts[i][2] \o params>> ELSE acts[i]]
    ELSE Append(acts, <<act, params>>)

\* what one action adds to the parameters of its act
ActParams(action, domain, desc_to_slot_id) ==
    IF action.slot # ""
    THEN IF _merge_domain_slot(domain, action.slot) \in DOMAIN desc_to_slot_id
         THEN ToString(desc_to_slot_id[_merge_domain_slot(domain, action.slot)]) \o ";"
         ELSE ""
    ELSE "none;"

\* the loop over the frame's actions
RECURSIVE ActLoop(_, _, _, _)
ActLoop(actions, domain, desc_to_slot_id, acts) ==
    IF actions = <<>> THEN acts
    ELSE ActLoop(Tail(actions), domain, desc_to_slot_id,
            AddAct(acts, Head(actions).act,
                   ActParams(Head(actions), domain, desc_to_slot_id)))

\* "act(params)" for every act, in the order the acts were first seen
RenderActs(acts) ==
    Join(" ", [i \in 1..Len(acts) |-> acts[i][1] \o "(" \o acts[i][2] \o ")"])

\* _process_agent_turn(config, actions, turn_info, domain, desc_to_slot_id)
_process_agent_turn(cfg, actions, domain, st) ==
    [st EXCEPT
        !.ti.prev_state_str = st.ti.out_state_str,
        !.ti.out_act_str =
            @ \o " [actions] "
              \o RenderActs(ActLoop(actions, domain, st.desc_to_slot_id, <<>>))]

-----------------------------------------------------------------------------
(* process_turn *)

\* the head of the loop body: turn_info.frame_id, the reset of the target
\* strings in a user turn, state_dict = FrameState()
FrameStart(frame_id, user_turn, st) ==
    [st EXCEPT !.ti.frame_id = ToString(frame_id),
               !.ti.out_state_str = IF user_turn THEN "[states]" ELSE @,
               !.ti.out_intent_str = IF user_turn THEN "[intents]" ELSE @,
               !.state_dict = NewFrameState]

\* "".join(state_dict.slot_desc + state_dict.intent_desc)
UserTurnPrefix(state_dict) == Concat(state_dict.slot_desc \o state_dict.intent_desc)

\* the tail of the loop body, from user_turn_prefix on
FrameEnd(frame, user_turn, prefix_, st) ==
    IF st.err # "" THEN st
    ELSE [st EXCEPT
            !.user_turn_prefix = UserTurnPrefix(st.state_dict),
            !.ti.out_ctx_with_desc_str =
                IF user_turn THEN UserTurnPrefix(st.state_dict) \o st.ti.out_ctx_str
                ELSE prefix_ \o st.ti.out_ctx_str,
            !.ti.out_intent_str = @ \o Concat(st.state_dict.intent_ids)
                                    \o " [req_slots] "
                                    \o Join(" ", st.state_dict.req_slots)]

\* turn_info_per_frame.append(copy.deepcopy(turn_info))
CollectFrame(frame, st) ==
    IF st.err # "" THEN st
    ELSE [st EXCEPT
            !.per_frame = Append(@, st.ti),
            !.locals = Append(@, [domain |-> frame.service,
                                  state_dict |-> st.state_dict,
                                  desc_to_slot_id |-> st.desc_to_slot_id,
                                  cumu_slots |-> st.cumu])]

\* the frame_id-th frame (counted from 0) of the loop over turn["frames"]
ProcessFrame(cfg, frame, frame_id, user_turn, prefix_, rnd, st) ==
    CollectFrame(frame,
        FrameEnd(frame, user_turn, prefix_,
            IF user_turn
            THEN _process_user_turn(cfg, frame.state, frame.service, rnd,
                                    FrameStart(frame_id, user_turn, st))
            ELSE _process_agent_turn(cfg, frame.actions, frame.service,
                                     FrameStart(frame_id, user_turn, st))))

\* for frame_id, frames in enumerate(turn["frames"])
RECURSIVE FrameLoop(_, _, _, _, _, _, _)
FrameLoop(cfg, frames, frame_id, user_turn, prefix_, rnds, st) ==
    IF frames = <<>> \/ st.err # "" THEN st
    ELSE FrameLoop(cfg, Tail(frames), frame_id + 1, user_turn, prefix_, Tail(rnds),
            ProcessFrame(cfg, Head(frames), frame_id, user_turn, prefix_, Head(rnds), st))

\* the statements of process_turn before the loop over the frames
TurnStart(turn_, turn_id, ti) ==
    [ti EXCEPT !.user_turn = (turn_.speaker = "user"),
               !.curr_utt = "[" \o turn_.speaker \o "] " \o turn_.utterance \o " ",
               !.out_ctx_str = @ \o "[" \o turn_.speaker \o "] " \o turn_.utterance \o " ",
               !.turn_id = ToString(turn_id),
               !.out_act_str = "",
               !.out_state_str = IF turn_.speaker = "user" THEN "[states]" ELSE @,
               !.out_intent_str = IF turn_.speaker = "user" THEN "[intents]" ELSE @]

\* process_turn(config, turn, turn_info, cumu_slots, item_desc, prefix, turn_id)
process_turn(cfg, turn_, ti, cumu, pv, prefix_, turn_id, rnds) ==
    FrameLoop(cfg, turn_.frames, 0, turn_.speaker = "user", prefix_, rnds,
        [err |-> "", ti |-> TurnStart(turn_, turn_id, ti), cumu |-> cumu, pv |-> pv,
         desc_to_slot_id |-> EmptyDict, state_dict |-> NewFrameState,
         slot_id |-> 0, intent_id |-> 0,
         user_turn_prefix |-> "", per_frame |-> <<>>, locals |-> <<>>])

-----------------------------------------------------------------------------
(* write_examples *)

\* " ".join(s.split())
CollapseSpaces(s) == CollapseRange(s, 1, Len(s))

\* TargetAtLevel had it given state and intents at every turn, whatever the level
TargetAtEveryTurn(cfg, ti) == Join(" ", <<ti.out_state_str, ti.out_intent_str>>)

\* the target of one TurnInfo at the configured level ("" when nothing is written)
TargetAtLevel(cfg, ti) ==
    IF cfg.level = "dst"
    THEN IF ti.user_turn THEN ti.out_state_str ELSE ""
    ELSE IF cfg.level = "dst_intent"
    THEN IF ti.user_turn THEN Join(" ", <<ti.out_state_str, ti.out_intent_str>>) ELSE ""
    ELSE IF ~ti.user_turn
         THEN Join(" ", <<ti.out_state_str, ti.out_intent_str, ti.out_act_str,
                          Replace(ti.curr_utt, "[system]", "[response]")>>)
         ELSE ""

\* the records written for turn_list, in order (the fields of each line)
RECURSIVE write_examples(_, _)
write_examples(cfg, turn_list) ==
    IF turn_list = <<>> THEN <<>>
    ELSE LET ti == Head(turn_list)
             tgt == TargetAtLevel(cfg, ti)
         IN  (IF tgt # ""
              THEN << [src |-> CollapseSpaces(ti.out_ctx_with_desc_str),
                       tgt |-> CollapseSpaces(tgt),
                       dialogue_id |-> ti.dialogue_id,
                       turn_id |-> ti.turn_id,
                       frame_id |-> ti.frame_id] >>
              ELSE <<>>)
             \o write_examples(cfg, Tail(turn_list))

\* out_sample_num = int(len(turn_list) * config.data_percent); the model holds
\* data_percent in hundredths
OutSampleNum(cfg, turn_list) == (Len(turn_list) * cfg.data_percent) \div 100

\* the keys of domain_id in the order of their ids: the domains of the turns in
\* the order of their first appearance
RECURSIVE DomainIds(_, _)
DomainIds(turn_list, seen) ==
    IF turn_list = <<>> THEN seen
    ELSE DomainIds(Tail(turn_list),
                   IF InList(Head(turn_list).turn_domain, seen) THEN seen
                   ELSE Append(seen, Head(turn_list).turn_domain))

\* domain_examples: for every domain id (counted from 1 here) its turns, in order
DomainExamples(turn_list) ==
    [d \in 1..Len(DomainIds(turn_list, <<>>)) |->
        SelectSeq(turn_list, LAMBDA t : t.turn_domain = DomainIds(turn_list, <<>>)[d])]

\* domain_id after the search for the s-th sample: the first cand_domain from
\* s % domain_count on that still has unused examples (s % domain_count if none)
PickDomain(s, domain_examples, consumed) ==
    LET domain_count == Len(domain_examples)
        cand_domain(d) == ((s % domain_count) + d) % domain_count
        unused == { d \in 0..(domain_count - 1) :
                      Len(domain_examples[cand_domain(d) + 1]) > consumed[cand_domain(d) + 1] }
    IN  IF unused = {} THEN s % domain_count
        ELSE cand_domain(CHOOSE d \in unused : \A e \in unused : d <= e)

\* for s in range(out_sample_num), from the s-th sample on
RECURSIVE UniformLoop(_, _, _, _, _)
UniformLoop(s, out_sample_num, domain_examples, consumed_examples, uniform_turn_list) ==
    IF s >= out_sample_num THEN uniform_turn_list
    ELSE UniformLoop(s + 1, out_sample_num, domain_examples,
            [consumed_examples EXCEPT
                ![PickDomain(s, domain_examples, consumed_examples) + 1] = @ + 1],
            Append(uniform_turn_list,
                   domain_examples[PickDomain(s, domain_examples, consumed_examples) + 1][
                       (consumed_examples[
                            PickDomain(s, domain_examples, consumed_examples) + 1]) + 1]))

\* example_filter(config, turn_list): the possible outcomes, each with the list
\* returned (result) and turn_list as the call leaves it (shuffled in place)
example_filter(cfg, turn_list) ==
    IF cfg.data_percent = 0
    THEN { [turn_list |-> turn_list, result |-> turn_list] }
    ELSE IF ~cfg.uniform_domain_distribution
    THEN { [turn_list |-> l, result |-> SubSeq(l, 1, OutSampleNum(cfg, turn_list))] :
             l \in (IF cfg.randomize_items THEN Permutations_(turn_list)
                    ELSE { turn_list }) }
    ELSE LET uniform_turn_list ==
                 UniformLoop(0, OutSampleNum(cfg, turn_list), DomainExamples(turn_list),
                             [d \in 1..Len(DomainIds(turn_list, <<>>)) |-> 0], <<>>)
         IN  { [turn_list |-> turn_list, result |-> l] :
                 l \in (IF cfg.randomize_items THEN Permutations_(uniform_turn_list)
                        ELSE { uniform_turn_list }) }

-----------------------------------------------------------------------------
(* The SGD dialogue file: the turns the run may read *)

UserFrame(service, slot_values, active_intent, requested_slots) ==
    [service |-> service,
     state |-> [slot_values |-> slot_values, active_intent |-> active_intent,
                requested_slots |-> requested_slots],
     actions |-> <<>>]

SystemFrame(service, actions) ==
    [service |-> service,
     state |-> [slot_values |-> <<>>, active_intent |-> "", requested_slots |-> <<>>],
     actions |-> actions]

HotelEast == UserFrame("h1", << <<"area", <<"east">>>> >>, "find", <<>>)

TrainTwoDays ==
    UserFrame("t1", << <<"day", <<"mon", "tue">>>>, <<"seats", <<"2">>>> >>, "buy",
              <<"seats", "day">>)

\* a frame that names a slot the schema does not have
UnknownStop == UserFrame("t1", << <<"stop", <<"mon">>>> >>, "buy", <<>>)

UserFrames ==
    { HotelEast,
      TrainTwoDays,
      UserFrame("h1", << <<"area", <<"dontcare">>>> >>, "NONE", <<"area">>),
      \* a value that is not one of the slot's possible values
      UserFrame("h1", << <<"area", <<"north">>>> >>, "find", <<>>),
      \* a requested slot of another service
      UserFrame("h1", <<>>, "find", <<"inn">>),
      UserFrame("h11", << <<"inn", <<"ritz">>>> >>, "NONE", <<>>),
      UserFrame("t1", << <<"day", <<>>>> >>, "NONE", <<"day", "day">>),
      UnknownStop }

HotelOffer ==
    SystemFrame("h1", << [act |-> "offer", slot |-> "area"],
                         [act |-> "request", slot |-> ""],
                         [act |-> "offer", slot |-> "inn"] >>)

TrainInform ==
    SystemFrame("t1", << [act |-> "inform", slot |-> "day"],
                         [act |-> "inform", slot |-> "seats"],
                         [act |-> "goodbye", slot |-> ""] >>)

Turns ==
    { [speaker |-> "user", utterance |-> "hello", frames |-> <<f>>] : f \in UserFrames }
    \cup { [speaker |-> "user", utterance |-> "hello", frames |-> fs] :
             fs \in { <<HotelEast, TrainTwoDays>>, <<TrainTwoDays, TrainTwoDays>>,
                       <<HotelEast, UnknownStop>> } }
    \cup { [speaker |-> "system", utterance |-> "sure", frames |-> fs] :
             fs \in { <<HotelOffer>>, <<TrainInform>>, <<HotelOffer, TrainInform>> } }

NoTurn == [speaker |-> "", utterance |-> "", frames |-> <<>>]

-----------------------------------------------------------------------------
(* random.shuffle *)

\* The outcomes of random.shuffle(list) that differ in the order of the items
\* in the set kept (the others stay where they are: the order of the items that
\* are not rendered does not reach any output).
Shuffles(list, kept) ==
    { p \in Permutations_(list) : \A i \in 1..Len(list) : list[i] \notin kept => p[i] = list[i] }

\* the outcomes of the random.shuffle calls of one _process_user_turn call:
\* the slot order, the order of the possible values of every slot that gets a
\* multiple choice prompt, the intent order
ShuffleOutcomes(cfg, turn_, domain, pv) ==
    IF cfg.randomize_items /\ turn_.speaker = "user"
    THEN LET names == item_desc.slot_keys
             lists == ListsOver([k \in 1..Len(names) |->
                         IF UsesMultipleChoice(cfg, names[k])
                         THEN Permutations_(pv[names[k]]) ELSE { pv[names[k]] }])
         IN  { [slots |-> s,
                pv |-> [n \in DOMAIN pv |-> v[IndexOf(n, names)]],
                intents |-> i] :
                 s \in Shuffles(names, { names[k] : k \in { j \in 1..Len(names) :
                                        InUtteranceDomain(domain, names[j]) } }),
                 v \in lists,
                 i \in Shuffles(item_desc.intent_keys,
                        { item_desc.intent_keys[k] :
                            k \in { j \in 1..Len(item_desc.intent_keys) :
                                IntentInUtteranceDomain(domain, item_desc.intent_keys[j]) } }) }
    ELSE { [slots |-> item_desc.slot_keys, pv |-> pv, intents |-> item_desc.intent_keys] }

\* one outcome per frame of the turn
TurnShuffleOutcomes(cfg, turn_, pv) ==
    ListsOver([k \in 1..Len(turn_.frames) |->
                 ShuffleOutcomes(cfg, turn_, turn_.frames[k].service, pv)])

-----------------------------------------------------------------------------
(* generate_data *)

\* the CliConfig settings of the runs: every multiple_choice format with and
\* without randomize_items at the default delimiter and level dst_intent, and
\* the other delimiter, levels and data format one at a time
DefaultConfig ==
    [delimiter |-> "=", level |-> "dst_intent", data_format |-> "full_desc",
     randomize_items |-> FALSE, multiple_choice |-> "none",
     data_percent |-> 0, uniform_domain_distribution |-> FALSE]

SgdConfigs ==
    { [DefaultConfig EXCEPT !.randomize_items = r, !.multiple_choice = m] :
        r \in BOOLEAN, m \in {"none", "a", "1a"} }
    \cup { [DefaultConfig EXCEPT !.delimiter = "=>", !.multiple_choice = "1a"],
           [DefaultConfig EXCEPT !.level = "dst", !.multiple_choice = "a"],
           [DefaultConfig EXCEPT !.level = "dst_intent_act", !.multiple_choice = "a"],
           [DefaultConfig EXCEPT !.data_format = "item_name"] }

\* the variables of the programs that do not run
NoMw == [history_str |-> ""]
NoDec == [lines |-> 0]

InitSgd ==
    /\ prog = "sgd"
    /\ pc = "run"
    /\ error = ""
    /\ config \in SgdConfigs
    /\ possible_values = item_desc.possible_values
    /\ cumu_slots = item_desc.ordered_slots
    /\ turn_info = NewTurnInfo("")
    /\ prefix = ""
    /\ dialogue_no = 0
    /\ turns_done = 0
    /\ turn_idx = 0
    /\ turn = NoTurn
    /\ frame_locals = <<>>
    /\ all_turns_per_frame = <<>>
    /\ examples = <<>>
    /\ mw = NoMw
    /\ dec = NoDec

\* for dlg in json.load(sgd_in): the dialogue's fresh state
StartDialogue ==
    /\ prog = "sgd" /\ pc = "run"
    /\ dialogue_no < MaxDialogues
    /\ dialogue_no > 0 => turn_idx > 0
    /\ dialogue_no' = dialogue_no + 1
    /\ cumu_slots' = item_desc.ordered_slots
    /\ turn_info' = NewTurnInfo("d" \o ToString(dialogue_no + 1))
    /\ prefix' = ""
    /\ turn_idx' = 0
    /\ UNCHANGED <<prog, pc, error, config, possible_values, turns_done, turn,
                   frame_locals, all_turns_per_frame, examples, mw, dec>>

\* what the run is left with after process_turn returned or raised r
TurnOutcome(t, r) ==
    /\ turn' = t
    /\ turns_done' = turns_done + 1
    /\ IF r.err # ""
       THEN /\ pc' = "error"
            /\ error' = r.err
            /\ UNCHANGED <<possible_values, cumu_slots, turn_info, prefix,
                           turn_idx, frame_locals, all_turns_per_frame>>
       ELSE /\ possible_values' = r.pv
            /\ cumu_slots' = r.cumu
            /\ turn_info' = r.ti
            /\ prefix' = r.user_turn_prefix
            /\ turn_idx' = turn_idx + 1
            /\ frame_locals' = r.locals
            /\ all_turns_per_frame' = all_turns_per_frame \o r.per_frame
            /\ UNCHANGED <<pc, error>>

\* for turn_idx, turn in enumerate(dlg["turns"]): process_turn and extend
ProcessTurn ==
    /\ prog = "sgd" /\ pc = "run"
    /\ dialogue_no > 0
    /\ turns_done < MaxTurns
    /\ \E t \in Turns :
       \E rnds \in TurnShuffleOutcomes(config, t, possible_values) :
          TurnOutcome(t, process_turn(config, t, turn_info, cumu_slots, possible_values,
                                      prefix, turn_idx, rnds))
    /\ UNCHANGED <<prog, config, dialogue_no, examples, mw, dec>>

\* write_examples(config, example_filter(config, all_turns_per_frame), out_file)
WriteExamples ==
    /\ prog = "sgd" /\ pc = "run"
    /\ dialogue_no > 0 /\ turn_idx > 0
    /\ \E r \in example_filter(config, all_turns_per_frame) :
          /\ examples' = write_examples(config, r.result)
          /\ all_turns_per_frame' = r.turn_list
    /\ pc' = "written"
    /\ UNCHANGED <<prog, error, config, mw, dec>>
    /\ UNCHANGED <<possible_values, cumu_slots, turn_info, prefix, dialogue_no,
                   turns_done, turn_idx, turn, frame_locals>>

NextSgd == StartDialogue \/ ProcessTurn \/ WriteExamples

SpecSgd == InitSgd /\ [][NextSgd]_vars

\* possible_values of the slot h1-area in a schema file that gives it n options
OptionList(n) ==
    [i \in 1..n |-> IF i = 1 THEN "east" ELSE IF i = 2 THEN "west" ELSE "v" \o ToString(i)]

\* the numbers of options h1-area has in the schema files of the runs below:
\* few, and as many as the letters of the alphabet, one less and one more
OptionCounts == {1, 2, MaxOptions - 2, MaxOptions - 1, MaxOptions}

\* the runs of the generator without randomize_items over schema files that
\* differ in the number of options of h1-area
InitOptions ==
    /\ prog = "sgd"
    /\ pc = "run"
    /\ error = ""
    /\ config \in { c \in SgdConfigs : ~c.randomize_items }
    /\ possible_values \in
          { [item_desc.possible_values EXCEPT !["h1-area"] = OptionList(n)] :
              n \in OptionCounts }
    /\ cumu_slots = item_desc.ordered_slots
    /\ turn_info = NewTurnInfo("")
    /\ prefix = ""
    /\ dialogue_no = 0
    /\ turns_done = 0
    /\ turn_idx = 0
    /\ turn = NoTurn
    /\ frame_locals = <<>>
    /\ all_turns_per_frame = <<>>
    /\ examples = <<>>
    /\ mw = NoMw
    /\ dec = NoDec

SpecOptions == InitOptions /\ [][NextSgd]_vars

------------------------------------------------------------------------------
(* generate_data with config.data_percent: runs of up to MaxRecords dialogues of
   one user turn with one frame, as they stand before example_filter *)

MaxRecords == 7

\* the longest list whose shuffles are enumerated
MaxShuffled == 3

\* the only turn of a dialogue, one for each service of the schema
FilterTurns ==
    [k \in 1..3 |->
        [speaker |-> "user", utterance |-> "hello",
         frames |-> << << HotelEast,
                          UserFrame("h11", << <<"inn", <<"ritz">>>> >>, "NONE", <<>>),
                          TrainTwoDays >>[k] >>]]

\* process_turn on the only turn of a dialogue (a shuffle may leave every list
\* in its order)
FilterRuns ==
    [k \in 1..Len(FilterTurns) |->
        process_turn(DefaultConfig, FilterTurns[k], NewTurnInfo(""),
                     item_desc.ordered_slots, item_desc.possible_values, "", 0,
                     CHOOSE rnds \in TurnShuffleOutcomes(DefaultConfig, FilterTurns[k],
                                                         item_desc.possible_values) : TRUE)]

\* the services of the dialogues' frames, dialogue by dialogue: a service first
\* appears after those before it in the schema (example_filter tells the
\* domains apart by the order of their first appearance only)
DialogueLists ==
    { doms \in UNION { [1..n -> 1..Len(FilterTurns)] : n \in 1..MaxRecords } :
        \A i \in 1..Len(doms) : \A k \in 1..(doms[i] - 1) :
            \E j \in 1..(i - 1) : doms[j] = k }

\* the run after the dialogues of a list, with data_percent (in hundredths),
\* uniform_domain_distribution and, up to MaxShuffled records, randomize_items
InitFilter ==
    /\ prog = "sgd"
    /\ pc = "run"
    /\ error = ""
    /\ \E doms \in DialogueLists :
          /\ config \in
                { [DefaultConfig EXCEPT !.data_percent = p,
                                        !.uniform_domain_distribution = u,
                                        !.randomize_items = r] :
                    p \in {0, 50, 75, 100}, u \in BOOLEAN,
                    r \in { b \in BOOLEAN : b => Len(doms) <= MaxShuffled } }
          /\ possible_values = FilterRuns[doms[Len(doms)]].pv
          /\ cumu_slots = FilterRuns[doms[Len(doms)]].cumu
          /\ turn_info = [FilterRuns[doms[Len(doms)]].ti EXCEPT
                             !.dialogue_id = "d" \o ToString(Len(doms))]
          /\ prefix = FilterRuns[doms[Len(doms)]].user_turn_prefix
          /\ dialogue_no = Len(doms)
          /\ turns_done = Len(doms)
          /\ turn_idx = 1
          /\ turn = FilterTurns[doms[Len(doms)]]
          /\ frame_locals = FilterRuns[doms[Len(doms)]].locals
          /\ all_turns_per_frame =
                [i \in 1..Len(doms) |->
                    [FilterRuns[doms[i]].per_frame[1] EXCEPT
                        !.dialogue_id = "d" \o ToString(i)]]
    /\ examples = <<>>
    /\ mw = NoMw
    /\ dec = NoDec

NextFilter == WriteExamples

SpecFilter == InitFilter /\ [][NextFilter]_vars

-----------------------------------------------------------------------------
(* MultiWOZ: multiwoz_utils *)

\* the services of the MultiWOZ schema file
MwRawSchema ==
    << [service_name |-> "hotel",
        slots |-> << [name |-> "hotel-type", is_categorical |-> TRUE,
                      possible_values |-> <<"guesthouse", "hotel">>] >>],
       [service_name |-> "train",
        slots |-> << [name |-> "train-bookpeople", is_categorical |-> TRUE,
                      possible_values |-> <<"1", "2">>] >>],
       [service_name |-> "taxi",
        slots |-> << [name |-> "taxi-size", is_categorical |-> TRUE,
                      possible_values |-> <<"4", "big">>] >>] >>

\* SlotInfo(is_categorical, possible_values) of one slot of the schema file
SlotInfo(slot) ==
    [is_categorical |-> slot.is_categorical /\ ~NumericCategorical(slot),
     possible_values |-> IF slot.is_categorical /\ ~NumericCategorical(slot)
                         THEN slot.possible_values ELSE <<>>]

\* slots_by_domain[domain] for one service
SlotsOfService(service) ==
    [n \in { Replace(service.slots[i].name, "book", "") : i \in 1..Len(service.slots) } |->
        SlotInfo(service.slots[CHOOSE i \in 1..Len(service.slots) :
                                  Replace(service.slots[i].name, "book", "") = n])]

\* multiwoz_utils.load_schema: SchemaInfo.slots_by_domain
mw_load_schema ==
    [d \in { MwRawSchema[i].service_name : i \in 1..Len(MwRawSchema) } |->
        SlotsOfService(MwRawSchema[CHOOSE i \in 1..Len(MwRawSchema) :
                                     MwRawSchema[i].service_name = d])]

schema_info == [slots_by_domain |-> mw_load_schema]

\* MultiwozData.slot_descriptions: the dict as its list of (slot name, descriptions)
slot_descriptions ==
    << <<"hotel-type", <<"type of the hotel">>>>,
       <<"train-people", <<"number of people">>>> >>

\* the keys of a dict given as its list of items
Keys(items) == [i \in 1..Len(items) |-> items[i][1]]

\* key in dict
HasKey(items, key) == \E i \in 1..Len(items) : items[i][1] = key

\* dict[key]
Lookup(items, key) == items[CHOOSE i \in 1..Len(items) : items[i][1] = key][2]

\* multiwoz_utils.get_domain
get_domain(slot_name) == SplitHead(slot_name, "-")

\* multiwoz_utils.extract_domains
extract_domains(belief_state) ==
    { get_domain(belief_state[i][1]) : i \in 1..Len(belief_state) }

-----------------------------------------------------------------------------
(* MultiWOZ: create_schemaless_data (TRADE and non-TRADE) *)
(* opts is the Options record; opts.variant tells the two scripts apart.  *)
(* description_type "shuffled_item_name" is not modelled.                 *)

\* the reference of the option with this letter
OptionAnswer(opts, slot_id, letter) ==
    IF opts.multiple_choice = "1a" THEN ToString(slot_id) \o letter ELSE letter

\* _multiple_choice_answer from `if value not in possible_values_shuffled` on
AnswerFor(opts, slot_id, possible_values_shuffled, value) ==
    IF InList(value, possible_values_shuffled)
    THEN OptionAnswer(opts, slot_id, Letter(IndexOf(value, possible_values_shuffled)))
    ELSE IF InList(Replace(value, " ", ""), possible_values_shuffled)
    THEN OptionAnswer(opts, slot_id,
            Letter(IndexOf(Replace(value, " ", ""), possible_values_shuffled)))
    ELSE "unknown"

\* _multiple_choice_answer(slot_id, letters, possible_values_shuffled, value)
_multiple_choice_answer(opts, slot_id, possible_values_shuffled, value) ==
    IF value = "none" THEN "none"
    ELSE IF value = "dontcare" THEN "dontcare"
    ELSE AnswerFor(opts, slot_id, possible_values_shuffled,
                   IF value = "guest house" THEN "guesthouse" ELSE value)

\* the values of a belief state entry, split at the first separator it contains
SplitValues(values) ==
    IF IsSubstr("|", values) THEN Split(values, "|")
    ELSE IF IsSubstr(">", values) THEN Split(values, ">")
    ELSE IF IsSubstr("<", values) THEN Split(values, "<")
    ELSE <<values>>

\* the non-TRADE script with multiwoz_version 2.2 rejects a value without separator
InvalidValues(opts, values) ==
    /\ opts.variant = "nontrade"
    /\ opts.multiwoz_version = "2.2"
    /\ ~IsSubstr("|", values) /\ ~IsSubstr(">", values) /\ ~IsSubstr("<", values)

\* is the multiple choice prompt generated for this slot
MwUsesMultipleChoice(opts, slot) == opts.multiple_choice # "none" /\ slot.is_categorical

\* desc before the options are appended
MwDescription(opts, i, slot_name) ==
    IF opts.description_type = "full_desc"
    THEN ToString(i) \o opts.delimiter \o Lookup(slot_descriptions, slot_name)[1]
    ELSE IF opts.description_type = "full_desc_with_domain"
    THEN ToString(i) \o opts.delimiter \o get_domain(slot_name) \o "-"
         \o Lookup(slot_descriptions, slot_name)[1]
    ELSE ToString(i) \o opts.delimiter \o slot_name

\* desc_format_str.format(slot_id=i, letter=letter, value=value)
MwOptionPiece(opts, i, letter, value) ==
    IF opts.multiple_choice = "a" THEN letter \o ") " \o value
    ELSE ToString(i) \o letter \o ") " \o value

\* desc as appended to prefix_pieces
MwPrefixPiece(opts, i, slot_name, slot, pvs) ==
    IF MwUsesMultipleChoice(opts, slot)
    THEN MwDescription(opts, i, slot_name) \o " "
         \o Join(" ", [k \in 1..ZipLength(pvs) |-> MwOptionPiece(opts, i, Letter(k), pvs[k])])
    ELSE MwDescription(opts, i, slot_name)

\* values_str of a slot of the belief state
ValuesStr(opts, i, slot, pvs, values) ==
    IF MwUsesMultipleChoice(opts, slot)
    THEN Join(" | ", [k \in 1..Len(values) |->
                        _multiple_choice_answer(opts, i, pvs, values[k])])
    ELSE Join(" | ", values)

\* one iteration of `for i, slot_name in enumerate(slot_names)`; slot is the
\* SlotInfo of slot_name, pvs the list the options are written from
MwSlotStep(opts, i, slot_name, slot, pvs, belief_state, st) ==
    IF MwUsesMultipleChoice(opts, slot) /\ ~(Len(pvs) < Len(ascii_lowercase))
    THEN [st EXCEPT !.err = "AssertionError"]
    ELSE IF ~HasKey(belief_state, slot_name)
    THEN [st EXCEPT !.prefix_pieces = Append(@, MwPrefixPiece(opts, i, slot_name, slot, pvs))]
    ELSE IF InvalidValues(opts, Lookup(belief_state, slot_name))
    THEN [st EXCEPT !.err = "ValueError"]
    ELSE [st EXCEPT
            !.prefix_pieces = Append(@, MwPrefixPiece(opts, i, slot_name, slot, pvs)),
            !.state_pieces =
                Append(@, ToString(i) \o opts.delimiter
                          \o ValuesStr(opts, i, slot, pvs,
                                       SplitValues(Lookup(belief_state, slot_name))))]

\* does schema_info.slots_by_domain[domain][slot_name] exist
InSchema(slot_name) ==
    /\ get_domain(slot_name) \in DOMAIN schema_info.slots_by_domain
    /\ slot_name \in DOMAIN schema_info.slots_by_domain[get_domain(slot_name)]

\* for i, slot_name in enumerate(slot_names); k = i + 1
RECURSIVE MwSlotLoop(_, _, _, _, _)
MwSlotLoop(opts, k, belief_state, rnd, st) ==
    IF k > Len(rnd.slot_names) \/ st.err # "" THEN st
    ELSE IF ~InSchema(rnd.slot_names[k]) THEN [st EXCEPT !.err = "KeyError"]
    ELSE MwSlotLoop(opts, k + 1, belief_state, rnd,
            MwSlotStep(opts, k - 1, rnd.slot_names[k],
                schema_info.slots_by_domain[get_domain(rnd.slot_names[k])][rnd.slot_names[k]],
                rnd.possible_values_shuffled[rnd.slot_names[k]], belief_state, st))

\* the exception of the check that every belief state slot reached the target
LengthMismatch(opts) == IF opts.variant = "trade" THEN "AssertionError" ELSE "ValueError"

\* state_separator.join(state_pieces)
JoinStatePieces(opts, state_pieces) ==
    Join(IF opts.variant = "nontrade" /\ opts.use_target_separators THEN " ; " ELSE " ",
         state_pieces)

\* MwExample had it not compared the target with the belief state
MwExampleUnchecked(opts, dialog_id, turn_, belief_state, history_str, slot_names, st) ==
    IF st.err # "" THEN [err |-> st.err, example |-> <<>>]
    ELSE [err |-> "",
          example |->
            [src |-> Strip(Join(" ", st.prefix_pieces) \o " " \o Strip(history_str)),
             tgt |-> Strip("[states] " \o JoinStatePieces(opts, st.state_pieces))
                     \o " [intents] [req_slots]",
             dialog_id |-> dialog_id,
             turn |-> turn_,
             slot_ordering |-> IF opts.variant = "nontrade"
                               THEN Join(", ", slot_names) ELSE ""]]

\* the TextToTextExample built from the pieces (the statements after the loop)
MwExample(opts, dialog_id, turn_, belief_state, history_str, slot_names, st) ==
    IF st.err # "" THEN [err |-> st.err, example |-> <<>>]
    ELSE IF Len(st.state_pieces) # Len(belief_state)
    THEN [err |-> LengthMismatch(opts), example |-> <<>>]
    ELSE [err |-> "",
          example |->
            [src |-> Strip(Join(" ", st.prefix_pieces) \o " " \o Strip(history_str)),
             tgt |-> Strip("[states] " \o JoinStatePieces(opts, st.state_pieces))
                     \o " [intents] [req_slots]",
             dialog_id |-> dialog_id,
             turn |-> turn_,
             \* metadata["slot_ordering"], which only the non-TRADE script sets
             slot_ordering |-> IF opts.variant = "nontrade"
                               THEN Join(", ", slot_names) ELSE ""]]

\* _process_one_turn(dialog_id, turn, belief_state, history_str, active_domains,
\* slot_descriptions); rnd holds the outcomes of its random.shuffle calls
_process_one_turn(opts, dialog_id, turn_, belief_state, history_str, rnd) ==
    MwExample(opts, dialog_id, turn_, belief_state, history_str, rnd.slot_names,
        MwSlotLoop(opts, 1, belief_state, rnd,
                   [err |-> "", prefix_pieces |-> <<>>, state_pieces |-> <<>>]))

\* SlotNames without the filter of use_active_domains_only
SlotNamesAll(opts, active_domains) == Keys(slot_descriptions)

\* slot_names before random.shuffle
SlotNames(opts, active_domains) ==
    IF opts.use_active_domains_only
    THEN SelectSeq(Keys(slot_descriptions), LAMBDA name : get_domain(name) \in active_domains)
    ELSE Keys(slot_descriptions)

\* slot.possible_values.copy() after random.shuffle, for the slots that get the
\* multiple choice prompt ([] for the others)
ShuffledCopies(opts, slot_name) ==
    IF InSchema(slot_name)
    THEN IF MwUsesMultipleChoice(opts,
                schema_info.slots_by_domain[get_domain(slot_name)][slot_name])
         THEN Permutations_(
                schema_info.slots_by_domain[get_domain(slot_name)][slot_name].possible_values)
         ELSE { <<>> }
    ELSE { <<>> }

\* the outcomes of the random.shuffle calls of one _process_one_turn call
MwShuffleOutcomes(opts, active_domains) ==
    { [slot_names |-> s,
       possible_values_shuffled |->
          [n \in { slot_descriptions[k][1] : k \in 1..Len(slot_descriptions) } |->
              v[IndexOf(n, Keys(slot_descriptions))]]] :
        s \in Permutations_(SlotNames(opts, active_domains)),
        v \in ListsOver([k \in 1..Len(slot_descriptions) |->
                           ShuffledCopies(opts, slot_descriptions[k][1])]) }

\* the belief states (extract_belief_state's result) the turns of the data may have
BeliefStates ==
    { <<>>,
      << <<"hotel-type", "guest house">> >>,
      << <<"hotel-type", "hotel|guesthouse">> >>,
      << <<"train-people", "2">> >>,
      << <<"hotel-type", "dontcare">>, <<"train-people", "2">> >>,
      \* a value that is not one of the slot's possible values
      << <<"hotel-type", "motel">> >>,
      \* a slot without description
      << <<"taxi-leave", "5">> >> }

\* the turns of the data: TRADE turns carry both transcripts, the others one
\* utterance
MwTurns ==
    { [system_transcript |-> "ok", transcript |-> "hi", utterance |-> "hi",
       belief_state |-> b] : b \in BeliefStates }

DefaultOptions ==
    [variant |-> "trade", multiwoz_version |-> "2.4", description_type |-> "full_desc",
     delimiter |-> ":", multiple_choice |-> "none", use_active_domains_only |-> FALSE,
     blocked_domains |-> {}, use_target_separators |-> FALSE]

\* the Options of the runs: both scripts with every multiple_choice format, with
\* a blocked domain with and without use_active_domains_only, and the other
\* settings one at a time
MwConfigs ==
    { [DefaultOptions EXCEPT !.variant = v, !.multiple_choice = m] :
        v \in {"trade", "nontrade"}, m \in {"none", "a", "1a"} }
    \cup { [DefaultOptions EXCEPT !.variant = v, !.blocked_domains = {"hotel"},
                                  !.use_active_domains_only = a] :
             v \in {"trade", "nontrade"}, a \in BOOLEAN }
    \cup { [DefaultOptions EXCEPT !.blocked_domains = {"hotel", "train"}],
           [DefaultOptions EXCEPT !.use_active_domains_only = TRUE],
           [DefaultOptions EXCEPT !.description_type = "full_desc_with_domain"],
           [DefaultOptions EXCEPT !.description_type = "item_name", !.delimiter = "="],
           [DefaultOptions EXCEPT !.variant = "nontrade", !.multiwoz_version = "2.2"],
           [DefaultOptions EXCEPT !.variant = "nontrade", !.use_target_separators = TRUE] }

InitMw ==
    /\ prog = "mw"
    /\ pc = "run"
    /\ error = ""
    /\ config \in MwConfigs
    /\ possible_values = EmptyDict
    /\ cumu_slots = EmptyDict
    /\ turn_info = NewTurnInfo("")
    /\ prefix = ""
    /\ dialogue_no = 0
    /\ turns_done = 0
    /\ turn_idx = 0
    /\ turn = NoTurn
    /\ frame_locals = <<>>
    /\ all_turns_per_frame = <<>>
    /\ examples = <<>>
    /\ mw = [history_str |-> ""]
    /\ dec = NoDec

sgdOnlyVars == <<possible_values, cumu_slots, turn_info, prefix, all_turns_per_frame>>

\* for dialog_id, dialog in ...: history_str = ""
MwStartDialog ==
    /\ prog = "mw" /\ pc = "run"
    /\ dialogue_no < MaxDialogues
    /\ dialogue_no > 0 => turn_idx > 0
    /\ dialogue_no' = dialogue_no + 1
    /\ mw' = [history_str |-> ""]
    /\ turn_idx' = 0
    /\ UNCHANGED <<prog, pc, error, config, turns_done, turn, frame_locals, examples, dec>>
    /\ UNCHANGED sgdOnlyVars

\* the iteration of the loop over the turns ends without a call of
\* _process_one_turn; history is history_str as the iteration leaves it
MwNoExample(t, history) ==
    /\ turn' = t
    /\ turns_done' = turns_done + 1
    /\ turn_idx' = turn_idx + 1
    /\ mw' = [history_str |-> history]
    /\ frame_locals' = <<>>
    /\ UNCHANGED <<pc, error, examples>>

\* the iteration calls _process_one_turn, which returns or raises r
MwCall(t, history, rnd, r) ==
    /\ turn' = t
    /\ turns_done' = turns_done + 1
    /\ IF r.err # ""
       THEN /\ pc' = "error"
            /\ error' = r.err
            /\ UNCHANGED <<turn_idx, mw, frame_locals, examples>>
       ELSE /\ turn_idx' = turn_idx + 1
            /\ mw' = [history_str |-> history]
            /\ frame_locals' = << [slot_names |-> rnd.slot_names,
                                   possible_values_shuffled |-> rnd.possible_values_shuffled,
                                   belief_state |-> t.belief_state] >>
            /\ examples' = Append(examples, r.example)
            /\ UNCHANGED <<pc, error>>

\* history_str after the TRADE script added the turn's utterances
TradeHistory(t) ==
    IF turn_idx = 0
    THEN mw.history_str \o "[user] " \o Strip(t.transcript) \o " "
    ELSE mw.history_str \o "[system] " \o Strip(t.system_transcript)
         \o " [user] " \o Strip(t.transcript) \o " "

\* Blocked had it skipped only the turns that touch every blocked domain
BlockedAll(opts, belief_state) ==
    /\ opts.blocked_domains # {}
    /\ opts.blocked_domains \subseteq extract_domains(belief_state)

\* is the turn skipped because of options.blocked_domains
Blocked(opts, belief_state) == opts.blocked_domains \cap extract_domains(belief_state) # {}

\* "d1", "d2", ...: the keys of the dialogues
DialogId == "d" \o ToString(dialogue_no)

\* TRADE script: one iteration of `for turn, utterance_json in enumerate(...)`
TradeTurn ==
    /\ prog = "mw" /\ pc = "run" /\ config.variant = "trade"
    /\ dialogue_no > 0
    /\ turns_done < MaxTurns
    /\ \E t \in MwTurns :
          IF Blocked(config, t.belief_state)
          THEN MwNoExample(t, TradeHistory(t))
          ELSE \E rnd \in MwShuffleOutcomes(config, extract_domains(t.belief_state)) :
                  MwCall(t, TradeHistory(t), rnd,
                         _process_one_turn(config, DialogId, turn_idx, t.belief_state,
                                           TradeHistory(t), rnd))
    /\ UNCHANGED <<prog, config, dialogue_no, dec>>
    /\ UNCHANGED sgdOnlyVars

\* history_str after the non-TRADE script added the turn's utterance
NonTradeHistory(t) ==
    mw.history_str \o "[" \o (IF turn_idx % 2 = 1 THEN "system" ELSE "user") \o "] "
    \o Strip(t.utterance) \o " "

\* non-TRADE script: one iteration of `for turn_num, turn in enumerate(dialog.turns)`
NonTradeTurn ==
    /\ prog = "mw" /\ pc = "run" /\ config.variant = "nontrade"
    /\ dialogue_no > 0
    /\ turns_done < MaxTurns
    /\ \E t \in MwTurns :
          IF turn_idx % 2 = 1
          THEN IF Blocked(config, t.belief_state)
               THEN MwNoExample(t, mw.history_str)
               ELSE \E rnd \in MwShuffleOutcomes(config, extract_domains(t.belief_state)) :
                       MwCall(t, NonTradeHistory(t), rnd,
                              _process_one_turn(config, DialogId, turn_idx, t.belief_state,
                                                mw.history_str, rnd))
          ELSE MwNoExample(t, NonTradeHistory(t))
    /\ UNCHANGED <<prog, config, dialogue_no, dec>>
    /\ UNCHANGED sgdOnlyVars

\* return examples
MwReturn ==
    /\ prog = "mw" /\ pc = "run"
    /\ dialogue_no > 0 /\ turn_idx > 0
    /\ pc' = "written"
    /\ UNCHANGED <<prog, error, config, dialogue_no, turns_done, turn_idx, turn,
                   frame_locals, examples, mw, dec>>
    /\ UNCHANGED sgdOnlyVars

NextMw == MwStartDialog \/ TradeTurn \/ NonTradeTurn \/ MwReturn

SpecMw == InitMw /\ [][NextMw]_vars

-----------------------------------------------------------------------------
(* The prediction decoder: convert_sgd_t5x_sdt_preds_to_dstc8 *)

\* the characters \w matches in the text modelled
IsWordChar(c) ==
    \/ c \in { SubSeq(ascii_lowercase, i, i) : i \in 1..Len(ascii_lowercase) }
    \/ IsDigitChar(c)
    \/ c = "_"

\* the characters [a-z] matches
IsLower(c) == c \in { SubSeq(ascii_lowercase, i, i) : i \in 1..Len(ascii_lowercase) }

\* the positions q of s at which (\w+) started at p can hand over to the
\* delimiter: s[p..q-1] are word characters and the delimiter stands at q
DelimiterAfter(s, delimiter, p) ==
    { q \in Occurrences(delimiter, s) :
        q > p /\ \A k \in p..(q - 1) : IsWordChar(SubSeq(s, k, k)) }

\* the positions from `from` on at which (\w+){delimiter} matches
PairStarts(s, delimiter, from) ==
    { p \in from..Len(s) : DelimiterAfter(s, delimiter, p) # {} }

\* the least element of a set of positions, or otherwise
MinOr(positions, otherwise) ==
    IF positions = {} THEN otherwise
    ELSE CHOOSE i \in positions : \A j \in positions : i <= j

\* the greatest element of a non-empty set of positions
Max(positions) == CHOOSE i \in positions : \A j \in positions : j <= i

\* the match of (\w+){delimiter}(.*?)(?=\w+{delimiter}|$) that starts at p:
\* \w+ is greedy, .*? ends at the first position where the lookahead holds
PairAt(s, delimiter, p, value_start) ==
    [slot |-> SubSeq(s, p, value_start - Len(delimiter) - 1),
     value |-> SubSeq(s, value_start,
                      MinOr(PairStarts(s, delimiter, value_start), Len(s) + 1) - 1),
     end |-> MinOr(PairStarts(s, delimiter, value_start), Len(s) + 1)]

\* re.findall(rf"(\w+){delimiter}(.*?)(?=\w+{delimiter}|$)", s[from-1:])
RECURSIVE FindPairs(_, _, _)
FindPairs(s, delimiter, from) ==
    IF PairStarts(s, delimiter, from) = {} THEN <<>>
    ELSE <<PairAt(s, delimiter, MinOr(PairStarts(s, delimiter, from), 0),
                  Max(DelimiterAfter(s, delimiter,
                                     MinOr(PairStarts(s, delimiter, from), 0)))
                  + Len(delimiter))>>
         \o FindPairs(s, delimiter,
                PairAt(s, delimiter, MinOr(PairStarts(s, delimiter, from), 0),
                       Max(DelimiterAfter(s, delimiter,
                                          MinOr(PairStarts(s, delimiter, from), 0)))
                       + Len(delimiter)).end)

\* the positions from `from` on at which ([a-z])\) matches with a space behind
OptionStarts(s, from) ==
    { p \in from..(Len(s) - 2) :
        IsLower(SubSeq(s, p, p)) /\ SubSeq(s, p + 1, p + 2) = ") " }

\* the positions from `from` on at which the lookahead [a-z]\) holds
OptionAhead(s, from) ==
    { p \in from..(Len(s) - 1) :
        IsLower(SubSeq(s, p, p)) /\ SubSeq(s, p + 1, p + 1) = ")" }

\* re.findall(r"([a-z])\) (.*?)(?=[a-z]\)|$)", s[from-1:]) with every value stripped
RECURSIVE FindOptions(_, _)
FindOptions(s, from) ==
    IF OptionStarts(s, from) = {} THEN <<>>
    ELSE << <<SubSeq(s, MinOr(OptionStarts(s, from), 0), MinOr(OptionStarts(s, from), 0)),
              Strip(SubSeq(s, MinOr(OptionStarts(s, from), 0) + 3,
                           MinOr(OptionAhead(s, MinOr(OptionStarts(s, from), 0) + 3),
                                 Len(s) + 1) - 1))>> >>
         \o FindOptions(s, MinOr(OptionAhead(s, MinOr(OptionStarts(s, from), 0) + 3),
                                 Len(s) + 1))

_SDT_CAT_SLOT_IDENTIFIER == "of possible values"

\* d[key] = value
Put(d, key, value) == [k \in DOMAIN d \cup {key} |-> IF k = key THEN value ELSE d[k]]

\* d[option] = option_value.strip() for every (option, option_value) match
RECURSIVE PutOptions(_, _)
PutOptions(options, d) ==
    IF options = <<>> THEN d
    ELSE PutOptions(Tail(options), Put(d, Head(options)[1], Head(options)[2]))

\* the options of value.split(_SDT_CAT_SLOT_IDENTIFIER)[1].strip()
OptionsOf(value) == FindOptions(Strip(Split(value, _SDT_CAT_SLOT_IDENTIFIER)[2]), 1)

\* slot_to_option_to_value[slot] (a defaultdict entry) after the options were put
SlotOptions(map, slot, options) ==
    IF options = <<>> THEN map
    ELSE Put(map, slot, PutOptions(options, IF slot \in DOMAIN map THEN map[slot]
                                            ELSE EmptyDict))

\* the loop over the (slot, value) matches of the prompt's slot block
RECURSIVE CategoricalLoop(_, _)
CategoricalLoop(pairs, map) ==
    IF pairs = <<>> THEN map
    ELSE IF ~IsSubstr(_SDT_CAT_SLOT_IDENTIFIER, Head(pairs).value)
    THEN CategoricalLoop(Tail(pairs), map)
    ELSE CategoricalLoop(Tail(pairs),
            SlotOptions(map, Head(pairs).slot, OptionsOf(Head(pairs).value)))

\* input_str.split("[slots]")[1].split("[context]")[0].split("[intent]")[0].strip()
SlotBlock(input_str) ==
    Strip(Split(Split(Split(input_str, "[slots]")[2], "[context]")[1], "[intent]")[1])

\* _create_categorical_slot_to_value_map(input_str): the map or the exception
_create_categorical_slot_to_value_map(input_str, delimiter) ==
    IF Len(Split(input_str, "[slots]")) < 2
    THEN [err |-> "IndexError", map |-> EmptyDict]
    ELSE [err |-> "",
          map |-> CategoricalLoop(FindPairs(SlotBlock(input_str), delimiter, 1), EmptyDict)]

\* input_str.split("[intent]")[1].split("[context]")[0].strip()
IntentBlock(input_str) == Strip(Split(Split(input_str, "[intent]")[2], "[context]")[1])

\* _create_intent_map(input_str): the map or the exception
_create_intent_map(input_str) ==
    IF Len(Split(input_str, "[intent]")) < 2
    THEN [err |-> "IndexError", map |-> EmptyDict]
    ELSE IF ~IsSubstr(_SDT_CAT_SLOT_IDENTIFIER, IntentBlock(input_str))
    THEN [err |-> "ValueError", map |-> EmptyDict]
    ELSE [err |-> "", map |-> PutOptions(OptionsOf(IntentBlock(input_str)), EmptyDict)]

\* None and the strings, as _normalize_value_prediction returns them
None == [is_none |-> TRUE, str |-> ""]
Str(s) == [is_none |-> FALSE, str |-> s]

\* `if value:`
Truthy(value) == ~value.is_none /\ value.str # ""

\* _normalize_value_prediction had it looked the letter up in the option block
\* of any slot of the prompt
NormalizeInAnyBlock(slot_name, value, slot_to_option_to_value) ==
    IF Strip(value) = "none" THEN None
    ELSE IF \E s \in DOMAIN slot_to_option_to_value :
               Strip(value) \in DOMAIN slot_to_option_to_value[s]
    THEN Str(slot_to_option_to_value[
                CHOOSE s \in DOMAIN slot_to_option_to_value :
                    Strip(value) \in DOMAIN slot_to_option_to_value[s]][Strip(value)])
    ELSE Str(Strip(value))

\* _normalize_value_prediction(slot_name, value, slot_to_option_to_value)
_normalize_value_prediction(slot_name, value, slot_to_option_to_value) ==
    IF Strip(value) = "none" THEN None
    ELSE IF slot_name \in DOMAIN slot_to_option_to_value
    THEN IF Strip(value) \in DOMAIN slot_to_option_to_value[slot_name]
         THEN Str(slot_to_option_to_value[slot_name][Strip(value)])
         ELSE Str(Strip(value))
    ELSE Str(Strip(value))

\* WriteValue had it deleted the slot's entry when the value is absent
WriteValueOrDelete(state, slot_name, value) ==
    IF Truthy(value)
    THEN [state EXCEPT !.slot_values = Put(@, slot_name, <<value.str>>)]
    ELSE [state EXCEPT !.slot_values =
            [k \in DOMAIN state.slot_values \ {slot_name} |-> state.slot_values[k]]]

\* frame["state"]["slot_values"][slot_name] = [value] when value is truthy
WriteValue(state, slot_name, value) ==
    IF Truthy(value)
    THEN [state EXCEPT !.slot_values = Put(@, slot_name, <<value.str>>)]
    ELSE state

\* the loop over the (slot_name, value) matches of the prediction
RECURSIVE WriteLoop(_, _, _)
WriteLoop(pairs, slot_to_option_to_value, state) ==
    IF pairs = <<>> THEN state
    ELSE WriteLoop(Tail(pairs), slot_to_option_to_value,
            WriteValue(state, Head(pairs).slot,
                _normalize_value_prediction(Head(pairs).slot, Head(pairs).value,
                                            slot_to_option_to_value)))

\* preds.split("[state]")[1].split("[intent]")[0].strip()
SlotPreds(preds) == Strip(Split(Split(preds, "[state]")[2], "[intent]")[1])

\* option_to_intent.get(intent_pred, "NONE")
IntentOf(option_to_intent, intent_pred) ==
    IF intent_pred \in DOMAIN option_to_intent THEN option_to_intent[intent_pred]
    ELSE "NONE"

\* "Populate intent prediction."
WriteIntent(cfg, preds, option_to_intent, state) ==
    IF cfg.evaluate_intent_acc /\ IsSubstr("[intent]", preds)
    THEN [state EXCEPT !.active_intent =
            IntentOf(option_to_intent, Strip(Split(preds, "[intent]")[2]))]
    ELSE state

\* int(s) for a string of digits
RECURSIVE ParseInt(_)
ParseInt(s) ==
    IF Len(s) = 0 THEN 0
    ELSE 10 * ParseInt(SubSeq(s, 1, Len(s) - 1))
         + (CHOOSE d \in 0..9 : ToString(d) = SubSeq(s, Len(s), Len(s)))

\* populate_json_predictions once the frame is found and the maps are built
PopulateFrame(cfg, dialogues, input, preds, slots, intents) ==
    IF slots.err # "" THEN [err |-> slots.err, dialogues |-> dialogues]
    ELSE IF intents.err # "" THEN [err |-> intents.err, dialogues |-> dialogues]
    ELSE IF Len(Split(preds, "[state]")) < 2
    THEN [err |-> "IndexError", dialogues |-> dialogues]
    ELSE [err |-> "",
          dialogues |->
            [dialogues EXCEPT
               ![input.dialogue_id].turns[ParseInt(input.turn_id) + 1]
                   .frames[ParseInt(input.frame_id) + 1].state =
                   WriteIntent(cfg, preds, intents.map,
                       WriteLoop(FindPairs(SlotPreds(preds), cfg.delimiter, 1),
                                 slots.map, @))]]

\* is dialog_id_to_dialogue[dialog_id]["turns"][turn_id]["frames"][frame_id] there
HasFrame(dialogues, input) ==
    /\ ParseInt(input.turn_id) + 1 \in DOMAIN dialogues[input.dialogue_id].turns
    /\ ParseInt(input.frame_id) + 1 \in
          DOMAIN dialogues[input.dialogue_id].turns[ParseInt(input.turn_id) + 1].frames

\* populate_json_predictions(dialog_id_to_dialogue, frame_predictions): the
\* dialogues it leaves, or the exception (predictions are always strings here)
populate_json_predictions(cfg, dialog_id_to_dialogue, frame_predictions) ==
    IF frame_predictions.input.dialogue_id \notin DOMAIN dialog_id_to_dialogue
    THEN [err |-> "ValueError", dialogues |-> dialog_id_to_dialogue]
    ELSE IF ~HasFrame(dialog_id_to_dialogue, frame_predictions.input)
    THEN [err |-> "IndexError", dialogues |-> dialog_id_to_dialogue]
    ELSE PopulateFrame(cfg, dialog_id_to_dialogue, frame_predictions.input,
            frame_predictions.prediction,
            _create_categorical_slot_to_value_map(
                frame_predictions.input.inputs_pretokenized, cfg.delimiter),
            IF cfg.evaluate_intent_acc
            THEN _create_intent_map(frame_predictions.input.inputs_pretokenized)
            ELSE [err |-> "", map |-> EmptyDict])

\* dialog_id_to_dialogue after main erased the ground truth state values
ErasedFrame(service) ==
    [service |-> service,
     state |-> [slot_values |-> EmptyDict, requested_slots |-> <<>>,
                active_intent |-> "NONE"]]

LoadedDialogues ==
    [id \in {"d1"} |->
        [dialogue_id |-> id,
         turns |-> << [speaker |-> "user",
                       frames |-> << ErasedFrame("restaurants_2"),
                                     ErasedFrame("trains_1") >>] >>]]

\* prompts (inputs_pretokenized): with option letters, with an intent block
\* announced as in the tests and as _create_intent_map expects it, with options
\* in id+letter form, and as the linearizers write it
Prompts ==
    { "[example] [user] a table [slots] veg=b of possible values a) false b) true date=march 3rd [context] [user] hi",
      "[example] [user] a table [slots] veg=b of possible values a) false b) true [intent] a of possible options a) reserve b) find [context] [user] hi",
      "[example] [user] a table [slots] veg=b of possible values a) false b) true [intent] a of possible values a) reserve b) find [context] [user] hi",
      "[example] [user] a train [slots] 0:departure of possible values 0a) leicester 0b) cambridge [context] [user] hi",
      "0:departure 0a) leicester 0b) cambridge [user] hi" }

Predictions ==
    { "[state] veg=b date=the 8th",
      "[state] veg=none date=none",
      "[state] veg=c",
      "[state] veg=dontcare",
      "veg=b",
      "",
      "[state] veg=a [intent] a",
      "[state] veg=none [intent] z",
      "[state] 0:0b",
      "[state] 0:b",
      "[state] veg=a date=b" }

FramePrediction(dialogue_id, turn_id, frame_id, inputs_pretokenized, prediction) ==
    [input |-> [dialogue_id |-> dialogue_id, turn_id |-> turn_id, frame_id |-> frame_id,
                inputs_pretokenized |-> inputs_pretokenized],
     prediction |-> prediction]

\* the lines the predictions file may hold
FramePredictions ==
    { FramePrediction("d1", "0", "0", i, p) : i \in Prompts, p \in Predictions }
    \cup { FramePrediction("d1", "0", "1", i, "[state] veg=b date=the 8th") : i \in Prompts }
    \cup { FramePrediction("d9", "0", "0", i, "[state] veg=b date=the 8th") : i \in Prompts }
    \cup { FramePrediction("d1", "0", "2", i, "[state] veg=b date=the 8th") : i \in Prompts }

NoPrediction == FramePrediction("", "", "", "", "")

DecConfigs == [delimiter : {"=", ":"}, evaluate_intent_acc : BOOLEAN]

InitDec ==
    /\ prog = "dec"
    /\ pc = "run"
    /\ error = ""
    /\ config \in DecConfigs
    /\ possible_values = EmptyDict
    /\ cumu_slots = EmptyDict
    /\ turn_info = NewTurnInfo("")
    /\ prefix = ""
    /\ dialogue_no = 0
    /\ turns_done = 0
    /\ turn_idx = 0
    /\ turn = NoTurn
    /\ frame_locals = <<>>
    /\ all_turns_per_frame = <<>>
    /\ examples = <<>>
    /\ mw = NoMw
    /\ dec = [lines |-> 0, dialog_id_to_dialogue |-> LoadedDialogues,
              frame_predictions |-> NoPrediction]

linearizerVars == <<possible_values, cumu_slots, turn_info, prefix, dialogue_no,
                    turns_done, turn_idx, turn, frame_locals, all_turns_per_frame,
                    examples, mw>>

\* what the run is left with after populate_json_predictions returned or raised r
Populated(frame_predictions, r) ==
    IF r.err # ""
    THEN /\ pc' = "error"
         /\ error' = r.err
         /\ dec' = [dec EXCEPT !.lines = @ + 1, !.frame_predictions = frame_predictions]
    ELSE /\ dec' = [lines |-> dec.lines + 1, dialog_id_to_dialogue |-> r.dialogues,
                    frame_predictions |-> frame_predictions]
         /\ UNCHANGED <<pc, error>>

\* for line in predictions_file: populate_json_predictions(...)
Populate ==
    /\ prog = "dec" /\ pc = "run"
    /\ dec.lines < MaxPredictions
    /\ \E frame_predictions \in FramePredictions :
          Populated(frame_predictions,
                    populate_json_predictions(config, dec.dialog_id_to_dialogue,
                                              frame_predictions))
    /\ UNCHANGED <<prog, config>>
    /\ UNCHANGED linearizerVars

\* json.dump(list(dialog_id_to_dialogue.values()), output_file, ...)
WriteJson ==
    /\ prog = "dec" /\ pc = "run"
    /\ pc' = "written"
    /\ UNCHANGED <<prog, error, config, dec>>
    /\ UNCHANGED linearizerVars

NextDec == Populate \/ WriteJson

SpecDec == InitDec /\ [][NextDec]_vars

-----------------------------------------------------------------------------
(* The three programs together *)

Init == InitSgd \/ InitMw \/ InitDec

Next == NextSgd \/ NextMw \/ NextDec

Spec == Init /\ [][Next]_vars

-----------------------------------------------------------------------------
(* Properties *)

\* the last turn process_turn returned from was a user turn of the SGD run:
\* frame_locals holds what each of its frames ended with
SgdUserTurnDone ==
    prog = "sgd" /\ pc # "error" /\ turn.speaker = "user" /\ frame_locals # <<>>

\* the TurnInfo copied for the k-th frame of the last turn
LastTurnInfo(k) == all_turns_per_frame[Len(all_turns_per_frame) - Len(frame_locals) + k]

\* the last example of the MultiWOZ run is there, and frame_locals holds the
\* slot order and the belief state it was made from
MwExampleDone == prog = "mw" /\ frame_locals # <<>> /\ examples # <<>>

LastExample == examples[Len(examples)]

\* does the target string hold an entry "{id}{delimiter}..."
EntryAt(delimiter, id, target) == IsSubstr(" " \o ToString(id) \o delimiter, target)

\* the text that follows "{id}{delimiter}" in the target, up to the next space
TargetRef(delimiter, id, target) ==
    SplitHead(Split(target \o " ", " " \o ToString(id) \o delimiter)[2], " ")

\* are the items of a list pairwise distinct
Distinct(list) == \A i, j \in 1..Len(list) : list[i] = list[j] => i = j

\* C4: in every user-turn frame the SGD linearizer rendered, a slot with an id
\* in that frame has an entry "{id}{delimiter}{value}" in the target state
\* string iff its value in cumu_slots at that point is not empty (the value
\* itself follows the delimiter unless the slot got the multiple choice prompt);
\* the slot's description is in the prompt either way.
C4_TargetPresence ==
    SgdUserTurnDone =>
        \A k \in 1..Len(frame_locals) :
        \A s \in DOMAIN frame_locals[k].desc_to_slot_id :
            LET id == frame_locals[k].desc_to_slot_id[s]
                value == frame_locals[k].cumu_slots[s]
                target == LastTurnInfo(k).out_state_str
            IN  /\ EntryAt(config.delimiter, id, target) <=> value # ""
                /\ (value # "" /\ ~UsesMultipleChoice(config, s))
                      => IsSubstr(" " \o ToString(id) \o config.delimiter \o value, target)
                /\ id + 1 \in DOMAIN frame_locals[k].state_dict.slot_desc
                /\ IsSubstr(" " \o ToString(id) \o config.delimiter
                                \o ItemDescription(config, item_desc.slots, s),
                            frame_locals[k].state_dict.slot_desc[id + 1])
                /\ IsSubstr(frame_locals[k].state_dict.slot_desc[id + 1],
                            LastTurnInfo(k).out_ctx_with_desc_str)

\* C4's case: a frame that rendered a slot with a value and a slot never set
C4_Witness ==
    /\ SgdUserTurnDone
    /\ \E k \in 1..Len(frame_locals) :
       \E s1, s2 \in DOMAIN frame_locals[k].desc_to_slot_id :
          /\ frame_locals[k].cumu_slots[s1] # ""
          /\ frame_locals[k].cumu_slots[s2] = ""
          /\ EntryAt(config.delimiter, frame_locals[k].desc_to_slot_id[s1],
                     LastTurnInfo(k).out_state_str)
          /\ ~EntryAt(config.delimiter, frame_locals[k].desc_to_slot_id[s2],
                      LastTurnInfo(k).out_state_str)

\* the ids the items of one SGD frame's prompt carry: the text in front of the
\* delimiter of each description
SgdLabels(state_dict) ==
    [i \in 1..Len(state_dict.slot_desc \o state_dict.intent_desc) |->
        SplitHead((state_dict.slot_desc \o state_dict.intent_desc)[i], config.delimiter)]

\* the ids under which the last MultiWOZ prompt describes slot_name
MwIds(slot_name) ==
    { i \in 0..(Len(frame_locals[1].slot_names) - 1) :
        IsSubstr(" " \o MwDescription(config, i, slot_name), " " \o LastExample.src) }

\* C5: within one render (the prompt of one user-turn frame of the SGD
\* linearizer, the prompt of one MultiWOZ example) no two schema items carry the
\* same id: slot ids are pairwise distinct, intent ids are pairwise distinct,
\* and an intent id (prefix "i") is never a slot id.
C5_InjectiveIds ==
    /\ SgdUserTurnDone =>
          \A k \in 1..Len(frame_locals) :
             /\ Distinct(SgdLabels(frame_locals[k].state_dict))
             /\ \A s1, s2 \in DOMAIN frame_locals[k].desc_to_slot_id :
                   frame_locals[k].desc_to_slot_id[s1] = frame_locals[k].desc_to_slot_id[s2]
                      => s1 = s2
             /\ \A i \in 1..Len(frame_locals[k].state_dict.intent_desc) :
                   SubSeq(frame_locals[k].state_dict.intent_desc[i], 1, 2) = " i"
    /\ MwExampleDone =>
          \A i, j \in 1..Len(frame_locals[1].slot_names) :
             /\ Cardinality(MwIds(frame_locals[1].slot_names[i])) = 1
             /\ MwIds(frame_locals[1].slot_names[i]) \cap MwIds(frame_locals[1].slot_names[j]) # {}
                   => i = j

\* C5's case: a frame with two slots and an intent, or an example with two slots
C5_Witness ==
    \/ /\ SgdUserTurnDone
       /\ \E k \in 1..Len(frame_locals) :
             /\ Len(frame_locals[k].state_dict.slot_desc) >= 2
             /\ Len(frame_locals[k].state_dict.intent_desc) >= 1
    \/ /\ MwExampleDone
       /\ Len(frame_locals[1].slot_names) >= 2

\* the schema slot a frame's requested slot names
RequestedName(frame, j) == _merge_domain_slot(frame.service, frame.state.requested_slots[j])

\* does a frame of the turn request a slot the schema does not have for its service
MissingRequested(turn_) ==
    \E k \in 1..Len(turn_.frames) :
    \E j \in 1..Len(turn_.frames[k].state.requested_slots) :
        RequestedName(turn_.frames[k], j) \notin DOMAIN item_desc.slots

\* C6: the ids after "[req_slots]" of a user-turn frame are the ids this
\* frame's assignment gave to the requested slots, one per entry of
\* requested_slots and in the input order (duplicates kept); a turn with a
\* requested slot that has no id in its frame's assignment aborts the run.
C6_RequestedSlots ==
    /\ (prog = "sgd" /\ turn.speaker = "user" /\ MissingRequested(turn)) => pc = "error"
    /\ SgdUserTurnDone =>
          \A k \in 1..Len(frame_locals) :
             /\ \A j \in 1..Len(turn.frames[k].state.requested_slots) :
                   RequestedName(turn.frames[k], j) \in DOMAIN frame_locals[k].desc_to_slot_id
             /\ frame_locals[k].state_dict.req_slots =
                   [j \in 1..Len(turn.frames[k].state.requested_slots) |->
                       ToString(frame_locals[k].desc_to_slot_id[RequestedName(turn.frames[k], j)])]
             /\ Split(LastTurnInfo(k).out_intent_str, " [req_slots] ")[2] =
                   Join(" ", frame_locals[k].state_dict.req_slots)

\* C6's case: a frame that requested its slots against the order of their ids,
\* and a frame that requested one slot twice
C6_Witness ==
    /\ SgdUserTurnDone
    /\ \E k \in 1..Len(frame_locals) :
          \/ frame_locals[k].state_dict.req_slots = <<"1", "0">>
          \/ frame_locals[k].state_dict.req_slots = <<"0", "0">>

\* the frames of a turn whose slot_values name the schema slot s
NamingFrames(turn_, s) ==
    { k \in 1..Len(turn_.frames) :
        \E i \in 1..Len(turn_.frames[k].state.slot_values) :
            _merge_domain_slot(turn_.frames[k].service,
                               turn_.frames[k].state.slot_values[i][1]) = s }

\* the values the frame's slot_values give to the schema slot s
ValuesIn(frame, s) ==
    frame.state.slot_values[
        CHOOSE i \in 1..Len(frame.state.slot_values) :
            _merge_domain_slot(frame.service, frame.state.slot_values[i][1]) = s][2]

\* the values of the last frame of the turn that names s, joined with " | "
LastWritten(turn_, s) ==
    Join(" | ", ValuesIn(turn_.frames[Max(NamingFrames(turn_, s))], s))

\* C7: cumu_slots is last-writer-wins per dialogue. A dialogue starts with
\* every schema slot at the empty string; a user turn leaves each slot its
\* frames name at the values of the last frame that names it, joined with
\* " | " in the given order, and every other slot as it was; a system turn and
\* the writing of the examples leave cumu_slots as it was.
C7_LastWriterWins ==
    [][(prog = "sgd" /\ pc' # "error") =>
          /\ dialogue_no' # dialogue_no =>
                \A s \in DOMAIN cumu_slots' : cumu_slots'[s] = ""
          /\ (turns_done' # turns_done /\ turn'.speaker = "system") =>
                cumu_slots' = cumu_slots
          /\ (turns_done' # turns_done /\ turn'.speaker = "user") =>
                /\ DOMAIN cumu_slots' = DOMAIN cumu_slots
                /\ \A s \in DOMAIN cumu_slots :
                      cumu_slots'[s] = IF NamingFrames(turn', s) # {}
                                       THEN LastWritten(turn', s)
                                       ELSE cumu_slots[s]
          /\ (dialogue_no' = dialogue_no /\ turns_done' = turns_done) =>
                cumu_slots' = cumu_slots]_vars

\* C7's case: the second turn of a dialogue overwrote a slot the first one set
\* and kept another, or a second dialogue started after a first one set a slot
C7_Witness ==
    /\ prog = "sgd" /\ pc = "run"
    /\ \/ /\ turn_idx = 2 /\ turn.speaker = "user"
          /\ cumu_slots["h1-area"] = "dontcare"
          /\ IsSubstr("east", all_turns_per_frame[1].out_state_str)
       \/ /\ turn_idx = 2 /\ turn.speaker = "system"
          /\ cumu_slots["t1-day"] = "mon | tue"
       \/ /\ dialogue_no = 2 /\ turn_idx = 0
          /\ IsSubstr("east", all_turns_per_frame[1].out_state_str)
          /\ cumu_slots["h1-area"] = ""

\* the record _process_user_turn is called with when cumu_slots is cumu
UpdateState(cumu) ==
    [err |-> "", ti |-> turn_info, cumu |-> cumu, pv |-> possible_values,
     desc_to_slot_id |-> EmptyDict, state_dict |-> NewFrameState,
     slot_id |-> 0, intent_id |-> 0, user_turn_prefix |-> "",
     per_frame |-> <<>>, locals |-> <<>>]

\* what _process_user_turn leaves when called for the frame with cumu_slots = cumu
Updated(frame, cumu) ==
    _process_user_turn(config, frame.state, frame.service,
        [slots |-> item_desc.slot_keys, pv |-> possible_values,
         intents |-> item_desc.intent_keys],
        UpdateState(cumu))

\* C8: for every cumu_slots the run reaches and every frame whose update
\* _process_user_turn accepts, a second call of _process_user_turn for the same
\* frame leaves cumu_slots as the first call left it; and a turn with the same
\* frame twice leaves, after the second, what the first left.
C8_Idempotent ==
    /\ prog = "sgd" =>
          \A f \in UserFrames :
             Updated(f, cumu_slots).err = "" =>
                /\ Updated(f, Updated(f, cumu_slots).cumu).err = ""
                /\ Updated(f, Updated(f, cumu_slots).cumu).cumu = Updated(f, cumu_slots).cumu
    /\ SgdUserTurnDone =>
          \A k \in 2..Len(frame_locals) :
             turn.frames[k] = turn.frames[k - 1] =>
                frame_locals[k].cumu_slots = frame_locals[k - 1].cumu_slots

\* C8's case: a turn applied the same update twice in a row, to a state that
\* held other values before
C8_Witness ==
    /\ SgdUserTurnDone
    /\ turn_idx = 2
    /\ turn.frames = <<TrainTwoDays, TrainTwoDays>>
    /\ frame_locals[1].cumu_slots["t1-day"] = "mon | tue"
    /\ frame_locals[2].cumu_slots["t1-day"] = "mon | tue"
    /\ cumu_slots["h1-area"] # ""

\* the frames of the last user turn that have the service of a system frame
SameDomain(frame) ==
    { j \in 1..Len(frame_locals) : frame_locals[j].domain = frame.service }

\* the acts of a system frame rendered with an id assignment: grouped by act in
\* the order the acts are first seen, the id and ";" for a slot with an id,
\* "none;" for an action without slot
RenderedWith(frame, desc_to_slot_id) ==
    " [actions] " \o RenderActs(ActLoop(frame.actions, frame.service, desc_to_slot_id, <<>>))

\* C3: in a system turn that follows a user turn of the same dialogue, for every
\* frame whose service had a frame in that user turn, the "[actions]" string
\* carries the acts rendered with the ids that user-turn frame assigned.
C3_ActionIds ==
    [][(/\ prog = "sgd" /\ pc' = "run"
        /\ turns_done' # turns_done
        /\ turn_idx >= 1 /\ turn.speaker = "user"
        /\ turn'.speaker = "system") =>
          \A k \in 1..Len(turn'.frames) :
          \A j \in SameDomain(turn'.frames[k]) :
             IsSubstr(RenderedWith(turn'.frames[k], frame_locals[j].desc_to_slot_id),
                      all_turns_per_frame'[Len(all_turns_per_frame) + k].out_act_str)]_vars

\* the slots of the last MultiWOZ prompt that belong to a blocked domain
BlockedSlots ==
    { i \in 1..Len(frame_locals[1].slot_names) :
        get_domain(frame_locals[1].slot_names[i]) \in config.blocked_domains }

\* does the prompt describe the slot
Describes(src, slot_name) ==
    \/ IsSubstr(config.delimiter \o Lookup(slot_descriptions, slot_name)[1], src)
    \/ IsSubstr(config.delimiter \o get_domain(slot_name) \o "-"
                   \o Lookup(slot_descriptions, slot_name)[1], src)
    \/ IsSubstr(config.delimiter \o slot_name, src)

\* C9 as claimed: with a non-empty set of blocked domains, whatever
\* use_active_domains_only is, no emitted example has a prompt with the id or
\* the description of a slot of a blocked domain.
C9_PromptFilter ==
    (MwExampleDone /\ config.blocked_domains # {}) =>
        /\ BlockedSlots = {}
        /\ \A k \in 1..Len(slot_descriptions) :
              get_domain(slot_descriptions[k][1]) \in config.blocked_domains
                 => ~Describes(LastExample.src, slot_descriptions[k][1])

\* C9 amended: with a non-empty set of blocked domains and
\* use_active_domains_only set, no emitted example has a prompt with the id or
\* the description of a slot of a blocked domain.
C9_PromptFilterActiveOnly ==
    (MwExampleDone /\ config.blocked_domains # {} /\ config.use_active_domains_only) =>
        /\ BlockedSlots = {}
        /\ \A k \in 1..Len(slot_descriptions) :
              get_domain(slot_descriptions[k][1]) \in config.blocked_domains
                 => ~Describes(LastExample.src, slot_descriptions[k][1])

\* C9's case: use_active_domains_only with a blocked domain, and an example
\* whose prompt describes the slot of the turn's other domain
C9_Witness ==
    /\ MwExampleDone
    /\ config.blocked_domains = {"hotel"}
    /\ config.use_active_domains_only
    /\ frame_locals[1].slot_names = <<"train-people">>
    /\ Describes(LastExample.src, "train-people")

\* C10: with a non-empty set of blocked domains, no example either script
\* emits has a target with an id-value entry of a slot of a blocked domain, and
\* none is made from a belief state that names such a slot.
C10_TargetFilter ==
    (MwExampleDone /\ config.blocked_domains # {}) =>
        /\ \A i \in BlockedSlots :
              ~EntryAt(config.delimiter, i - 1, LastExample.tgt)
        /\ \A j \in 1..Len(frame_locals[1].belief_state) :
              get_domain(frame_locals[1].belief_state[j][1]) \notin config.blocked_domains

\* C10's case: an example emitted under a blocked domain, after a turn of the
\* same dialogue was skipped, with a target entry for the slot of the other
\* domain while the prompt lists the blocked domain's slot
C10_Witness ==
    /\ MwExampleDone
    /\ config.blocked_domains # {}
    /\ BlockedSlots # {}
    /\ Len(examples) = 1 /\ turns_done = 2 /\ dialogue_no = 1
    /\ \E i \in 1..Len(frame_locals[1].slot_names) :
          /\ i \notin BlockedSlots
          /\ EntryAt(config.delimiter, i - 1, LastExample.tgt)

\* is the option reference ref the label in front of ") value" in the
\* enumeration of a slot's options
LabelOf(ref, value, enumeration) ==
    IsSubstr(" " \o ref \o ") " \o value \o " ", " " \o enumeration \o " ")

\* the SlotInfo of a MultiWOZ slot
MwSlot(slot_name) == schema_info.slots_by_domain[get_domain(slot_name)][slot_name]

\* a belief state value as the options list it ("guest house" is "guesthouse")
Enumerated(value) == Replace(value, " ", "")

\* C1: for every turn a linearizer rendered with multiple_choice "a" or "1a"
\* and every categorical slot whose value v is one of the enumerated options,
\* the reference written after the delimiter in the target is the label that
\* stands in front of ") v" in the slot's enumeration in the same prompt.
C1_RoundTrip ==
    /\ SgdUserTurnDone =>
          \A k \in 1..Len(frame_locals) :
          \A s \in DOMAIN frame_locals[k].desc_to_slot_id :
             (/\ UsesMultipleChoice(config, s)
              /\ frame_locals[k].cumu_slots[s] \notin {"", "dontcare"}) =>
                LabelOf(TargetRef(config.delimiter, frame_locals[k].desc_to_slot_id[s],
                                  LastTurnInfo(k).out_state_str),
                        frame_locals[k].cumu_slots[s],
                        frame_locals[k].state_dict.slot_desc[
                            frame_locals[k].desc_to_slot_id[s] + 1])
    /\ MwExampleDone =>
          \A i \in 1..Len(frame_locals[1].slot_names) :
             (/\ MwUsesMultipleChoice(config, MwSlot(frame_locals[1].slot_names[i]))
              /\ HasKey(frame_locals[1].belief_state, frame_locals[1].slot_names[i])
              /\ InList(Enumerated(Lookup(frame_locals[1].belief_state,
                                          frame_locals[1].slot_names[i])),
                        MwSlot(frame_locals[1].slot_names[i]).possible_values)) =>
                LabelOf(TargetRef(config.delimiter, i - 1, LastExample.tgt),
                        Enumerated(Lookup(frame_locals[1].belief_state,
                                          frame_locals[1].slot_names[i])),
                        LastExample.src)

\* the prompts of the decoder's input whose options are in id+letter form
IdLetterPrompts == { i \in Prompts : IsSubstr("0a) leicester 0b) cambridge", i) }

\* the state of the frame the decoder last wrote to
WrittenState ==
    dec.dialog_id_to_dialogue[dec.frame_predictions.input.dialogue_id]
        .turns[ParseInt(dec.frame_predictions.input.turn_id) + 1]
        .frames[ParseInt(dec.frame_predictions.input.frame_id) + 1].state

\* C2: given a prompt whose options are in id+letter form ("0:departure ...
\* 0a) leicester 0b) cambridge") and the prediction "0:0b", the decoder writes
\* the value the prompt lists for 0b, cambridge, as the value of the slot.
C2_IdLetterReference ==
    (/\ prog = "dec" /\ dec.lines > 0
     /\ config.delimiter = ":" /\ ~config.evaluate_intent_acc
     /\ dec.frame_predictions.input.inputs_pretokenized \in IdLetterPrompts
     /\ IsSubstr("[slots]", dec.frame_predictions.input.inputs_pretokenized)
     /\ dec.frame_predictions.prediction = "[state] 0:0b") =>
        /\ pc # "error"
        /\ "0" \in DOMAIN WrittenState.slot_values
        /\ WrittenState.slot_values["0"] = <<"cambridge">>

\* the domains of the slots of the belief state of the turn last processed
ActiveDomains(turn_) == extract_domains(turn_.belief_state)

\* C11 as claimed: with domains blocked, a MultiWOZ turn whose set of active
\* domains is a subset of the blocked domains adds no example.
C11_BlockedSubset ==
    [][(/\ prog = "mw" /\ turns_done' # turns_done
        /\ config.blocked_domains # {}
        /\ ActiveDomains(turn') \subseteq config.blocked_domains) =>
          examples' = examples]_vars

\* C11 amended: a MultiWOZ turn whose set of active domains is not empty and a
\* subset of the blocked domains adds no example, so that a run in which every
\* turn is such a turn ends with no example.
C11_BlockedNonEmptySubset ==
    [][(/\ prog = "mw" /\ turns_done' # turns_done
        /\ ActiveDomains(turn') # {}
        /\ ActiveDomains(turn') \subseteq config.blocked_domains) =>
          examples' = examples]_vars

\* C11's case: the TRADE script returned no example after two turns with a
\* belief state, the last one of a domain of the two that are blocked
C11_Witness ==
    /\ prog = "mw" /\ pc = "written" /\ config.variant = "trade"
    /\ config.blocked_domains = {"hotel", "train"}
    /\ turns_done = 2
    /\ ActiveDomains(turn) = {"train"}
    /\ examples = <<>>

\* the decoder read at least one line; dec.frame_predictions is the last one
DecLineRead == prog = "dec" /\ dec.lines > 0

\* the prompt of the line last read
LastPrompt == dec.frame_predictions.input.inputs_pretokenized

\* does the line last read address a frame of the loaded dialogues
AddressesFrame ==
    /\ dec.frame_predictions.input.dialogue_id \in DOMAIN dec.dialog_id_to_dialogue
    /\ HasFrame(dec.dialog_id_to_dialogue, dec.frame_predictions.input)

\* a prompt with the section markers the decoder looks for: a "[slots]" block
\* and, with intent decoding enabled, an "[intent]" block with its options
\* announced by "of possible values"
WellFormedPrompt(input_str) ==
    /\ IsSubstr("[slots]", input_str)
    /\ config.evaluate_intent_acc =>
          /\ IsSubstr("[intent]", input_str)
          /\ IsSubstr(_SDT_CAT_SLOT_IDENTIFIER, IntentBlock(input_str))

\* C12: for a well-formed prompt that addresses a loaded frame, whatever the
\* prediction string is (free text, an unknown option letter, no "[state]" or
\* "[intent]" marker, the empty string), populate_json_predictions returns
\* normally: the run is not ended by an exception.
C12_NeverRaises ==
    (DecLineRead /\ AddressesFrame /\ WellFormedPrompt(LastPrompt)) => pc # "error"

\* the (slot, value) pairs of the prediction last read
LastPairs == FindPairs(SlotPreds(dec.frame_predictions.prediction), config.delimiter, 1)

\* the option blocks of the prompt last read
LastOptionMap == _create_categorical_slot_to_value_map(LastPrompt, config.delimiter).map

\* the option values of a slot that are v up to spaces
SpaceInsensitive(options, v) ==
    { options[l] : l \in { k \in DOMAIN options :
                             Replace(options[k], " ", "") = Replace(v, " ", "") } }

\* C13: after a line was decoded, for a slot with an option block in the
\* prompt and a predicted value that is not empty, not "none", not "dontcare"
\* and not an option letter of the slot, the frame holds the option value that
\* equals the prediction up to spaces or, when there is none, "unknown".
C13_UnknownSentinel ==
    (DecLineRead /\ pc # "error") =>
        \A i \in 1..Len(LastPairs) :
            (/\ LastPairs[i].slot \in DOMAIN LastOptionMap
             /\ Strip(LastPairs[i].value) \notin {"", "none", "dontcare"}
             /\ Strip(LastPairs[i].value) \notin DOMAIN LastOptionMap[LastPairs[i].slot]) =>
                /\ LastPairs[i].slot \in DOMAIN WrittenState.slot_values
                /\ \E v \in IF SpaceInsensitive(LastOptionMap[LastPairs[i].slot],
                                                Strip(LastPairs[i].value)) # {}
                            THEN SpaceInsensitive(LastOptionMap[LastPairs[i].slot],
                                                  Strip(LastPairs[i].value))
                            ELSE {"unknown"} :
                      WrittenState.slot_values[LastPairs[i].slot] = <<v>>

\* the state of the frame a line addresses, in the given dialogues
FrameStateOf(dialogues, input) ==
    dialogues[input.dialogue_id].turns[ParseInt(input.turn_id) + 1]
        .frames[ParseInt(input.frame_id) + 1].state

\* the (slot, value) pairs of the prediction of a line
PairsOf(fp) == FindPairs(SlotPreds(fp.prediction), config.delimiter, 1)

\* the option blocks of the prompt of a line
OptionMapOf(fp) ==
    _create_categorical_slot_to_value_map(fp.input.inputs_pretokenized, config.delimiter).map

\* the pairs among `pairs` that name the slot n with a value that, given the
\* option blocks `map`, is neither absent ("none") nor empty
WritesTo(pairs, map, n) ==
    { i \in 1..Len(pairs) :
        pairs[i].slot = n /\ Truthy(_normalize_value_prediction(n, pairs[i].value, map)) }

\* the frames of the dialogues as (dialogue, turn, frame) indices
FrameIndices(dialogues) ==
    { <<d, t, f>> \in (DOMAIN dialogues) \X (1..2) \X (1..3) :
        t \in DOMAIN dialogues[d].turns /\ f \in DOMAIN dialogues[d].turns[t].frames }

\* C14: a line that populate_json_predictions accepts leaves, in the frame it
\* addresses, slot_values[n] = [v] for every slot n its prediction names with a
\* value v that is not absent or empty (the last such pair of the slot), and
\* every other entry of slot_values as it was, none deleted; requested_slots
\* and every other frame, turn and dialogue are as they were.
C14_WriteEffect ==
    [][(prog = "dec" /\ dec'.lines # dec.lines /\ pc' # "error") =>
          \A fp \in {dec'.frame_predictions} :
          \A old \in {FrameStateOf(dec.dialog_id_to_dialogue, fp.input)} :
          \A new \in {FrameStateOf(dec'.dialog_id_to_dialogue, fp.input)} :
          \A pairs \in {PairsOf(fp)} :
          \A map \in {OptionMapOf(fp)} :
              /\ DOMAIN new.slot_values =
                    DOMAIN old.slot_values
                    \cup { n \in { pairs[i].slot : i \in 1..Len(pairs) } :
                             WritesTo(pairs, map, n) # {} }
              /\ \A n \in DOMAIN new.slot_values :
                    new.slot_values[n] =
                       IF WritesTo(pairs, map, n) # {}
                       THEN <<_normalize_value_prediction(
                                 n, pairs[Max(WritesTo(pairs, map, n))].value, map).str>>
                       ELSE old.slot_values[n]
              /\ new.requested_slots = old.requested_slots
              /\ DOMAIN dec'.dialog_id_to_dialogue = DOMAIN dec.dialog_id_to_dialogue
              /\ FrameIndices(dec'.dialog_id_to_dialogue) = FrameIndices(dec.dialog_id_to_dialogue)
              /\ \A x \in FrameIndices(dec.dialog_id_to_dialogue) :
                    (x # <<fp.input.dialogue_id, ParseInt(fp.input.turn_id) + 1,
                           ParseInt(fp.input.frame_id) + 1>>) =>
                       dec'.dialog_id_to_dialogue[x[1]].turns[x[2]].frames[x[3]] =
                          dec.dialog_id_to_dialogue[x[1]].turns[x[2]].frames[x[3]]]_vars

\* C14's case: a second line with "none" for the two slots the first line
\* wrote in the same frame; the frame keeps both values and the other frame of
\* the turn is still empty
C14_Witness ==
    /\ DecLineRead /\ pc = "run" /\ dec.lines = 2
    /\ dec.frame_predictions.prediction = "[state] veg=none date=none"
    /\ dec.frame_predictions.input.frame_id = "0"
    /\ LastOptionMap = [veg |-> [a |-> "false", b |-> "true"]]
    /\ WrittenState.slot_values = [veg |-> <<"true">>, date |-> <<"the 8th">>]
    /\ dec.dialog_id_to_dialogue["d1"].turns[1].frames[2].state.slot_values = EmptyDict

\* the pairs among `pairs` whose slot no other pair names
NamedOnce(pairs) ==
    { i \in 1..Len(pairs) : \A j \in 1..Len(pairs) : pairs[j].slot = pairs[i].slot => j = i }

\* C15: after a line was decoded, a slot with an option block in the prompt
\* and a predicted letter of that block holds the value the block lists for the
\* letter, and a slot without an option block holds its predicted value as
\* predicted (stripped), also when that value is a letter of another slot's
\* block.
C15_LettersOfOwnBlock ==
    (DecLineRead /\ pc # "error") =>
        \A pairs \in {LastPairs} :
        \A map \in {LastOptionMap} :
        \A written \in {WrittenState.slot_values} :
        \A i \in NamedOnce(pairs) :
            /\ (/\ pairs[i].slot \in DOMAIN map
                /\ Strip(pairs[i].value) \in DOMAIN map[pairs[i].slot]
                /\ map[pairs[i].slot][Strip(pairs[i].value)] # "") =>
                  /\ pairs[i].slot \in DOMAIN written
                  /\ written[pairs[i].slot] = <<map[pairs[i].slot][Strip(pairs[i].value)]>>
            /\ (/\ pairs[i].slot \notin DOMAIN map
                /\ Strip(pairs[i].value) \notin {"", "none"}) =>
                  /\ pairs[i].slot \in DOMAIN written
                  /\ written[pairs[i].slot] = <<Strip(pairs[i].value)>>

\* C15's case: "veg=a date=b" against a prompt with the block a) false b) true
\* for veg and none for date: veg is false and date is still b
C15_Witness ==
    /\ DecLineRead /\ pc = "run"
    /\ LastOptionMap = [veg |-> [a |-> "false", b |-> "true"]]
    /\ dec.frame_predictions.prediction = "[state] veg=a date=b"
    /\ WrittenState.slot_values = [veg |-> <<"false">>, date |-> <<"b">>]

\* the letters and intents of a prompt's intent block of the form
\* "[intent] ... of possible options a) X b) Y ... [context]"
ListedIntents(input_str) ==
    PutOptions(FindOptions(Strip(Split(IntentBlock(input_str), "of possible options")[2]), 1),
               EmptyDict)

\* does the prompt have an intent block of that form
HasIntentOptions(input_str) ==
    /\ IsSubstr("[slots]", input_str)
    /\ IsSubstr("[intent]", input_str)
    /\ IsSubstr("of possible options", IntentBlock(input_str))

\* the letter a prediction ends with after "[intent]"
PredictedLetter(preds) == Strip(Split(preds, "[intent]")[2])

\* C16: with intent decoding enabled, for a prompt whose intent block lists its
\* intents after "of possible options" and a prediction "[state] ... [intent] L"
\* the decoder returns and leaves the intent the block lists for L, or "NONE"
\* when L is no letter of the block, in the frame's active_intent; with intent
\* decoding disabled the frame's active_intent stays what it was ("NONE").
C16_IntentDecoding ==
    (/\ DecLineRead /\ dec.lines = 1 /\ AddressesFrame
     /\ HasIntentOptions(LastPrompt)
     /\ IsSubstr("[state]", dec.frame_predictions.prediction)
     /\ IsSubstr("[intent]", dec.frame_predictions.prediction)) =>
        /\ pc # "error"
        /\ WrittenState.active_intent =
              IF ~config.evaluate_intent_acc THEN "NONE"
              ELSE IF PredictedLetter(dec.frame_predictions.prediction)
                         \in DOMAIN ListedIntents(LastPrompt)
              THEN ListedIntents(LastPrompt)[PredictedLetter(dec.frame_predictions.prediction)]
              ELSE "NONE"

\* the frames of a turn whose slot_values name a slot that, qualified with the
\* frame's service, is not in the schema
UnknownSlotFrames(turn_) ==
    { k \in 1..Len(turn_.frames) :
        \E i \in 1..Len(turn_.frames[k].state.slot_values) :
            _merge_domain_slot(turn_.frames[k].service,
                               turn_.frames[k].state.slot_values[i][1])
                \notin DOMAIN item_desc.ordered_slots }

\* C17: a user turn with a frame whose slot_values name a slot that is not in
\* the schema ends the run with the error "Unknown slot"; no TurnInfo of the
\* turn is collected and no example is written.
C17_UnknownSlotFatal ==
    [][(/\ prog = "sgd" /\ turns_done' # turns_done
        /\ turn'.speaker = "user" /\ UnknownSlotFrames(turn') # {}) =>
          /\ pc' = "error"
          /\ error' = "ValueError: Unknown slot"
          /\ all_turns_per_frame' = all_turns_per_frame
          /\ examples' = <<>>]_vars

\* C17's case: after a turn that was collected, a turn whose second frame
\* names an unknown slot raised, and the first frame left no TurnInfo either
C17_Witness ==
    /\ prog = "sgd" /\ pc = "error" /\ error = "ValueError: Unknown slot"
    /\ turns_done = 2
    /\ turn.frames = <<HotelEast, UnknownStop>>
    /\ Len(all_turns_per_frame) = 1
    /\ examples = <<>>

\* does a frame of the SGD turn give a categorical slot that gets the multiple
\* choice prompt a value other than "dontcare" that is not one of its options
SgdOutsideOptions(turn_) ==
    \E k \in 1..Len(turn_.frames) :
    \E i \in 1..Len(turn_.frames[k].state.slot_values) :
        /\ _merge_domain_slot(turn_.frames[k].service,
                              turn_.frames[k].state.slot_values[i][1])
              \in DOMAIN item_desc.slots
        /\ UsesMultipleChoice(config,
              _merge_domain_slot(turn_.frames[k].service,
                                 turn_.frames[k].state.slot_values[i][1]))
        /\ JoinValues(turn_.frames[k].state.slot_values[i][2]) \notin {"", "dontcare"}
        /\ ~InList(JoinValues(turn_.frames[k].state.slot_values[i][2]),
                   item_desc.possible_values[
                       _merge_domain_slot(turn_.frames[k].service,
                                          turn_.frames[k].state.slot_values[i][1])])

\* does the belief state of the MultiWOZ turn give a described categorical slot
\* a value other than "none"/"dontcare" that is not one of its options, also
\* with its spaces removed
MwOutsideOptions(turn_) ==
    \E j \in 1..Len(turn_.belief_state) :
        /\ HasKey(slot_descriptions, turn_.belief_state[j][1])
        /\ InSchema(turn_.belief_state[j][1])
        /\ MwUsesMultipleChoice(config, MwSlot(turn_.belief_state[j][1]))
        /\ \E v \in { SplitValues(turn_.belief_state[j][2])[n] :
                        n \in 1..Len(SplitValues(turn_.belief_state[j][2])) } :
              /\ v \notin {"none", "dontcare"}
              /\ ~InList(Enumerated(v), MwSlot(turn_.belief_state[j][1]).possible_values)

\* is _process_one_turn called for the MultiWOZ turn processed by this step
MwRendered(turn_) ==
    /\ ~Blocked(config, turn_.belief_state)
    /\ config.variant = "nontrade" => turn_idx % 2 = 1

\* the SGD linearizer: such a turn ends the run with an error and no TurnInfo
\* of the turn is collected
SgdOutsideOptionsFatal ==
    (/\ prog = "sgd" /\ turns_done' # turns_done
     /\ turn'.speaker = "user" /\ SgdOutsideOptions(turn')) =>
        /\ pc' = "error"
        /\ all_turns_per_frame' = all_turns_per_frame
        /\ examples' = <<>>

\* C18 as claimed: in the SGD linearizer and in both MultiWOZ linearizers, with
\* multiple choice enabled, a turn that gives a categorical slot a value
\* outside its options ends the run with an error and emits no example.
C18_OutsideOptionsFatal ==
    [][/\ SgdOutsideOptionsFatal
       /\ (/\ prog = "mw" /\ turns_done' # turns_done
           /\ MwRendered(turn') /\ MwOutsideOptions(turn')) =>
              /\ pc' = "error"
              /\ examples' = examples]_vars

\* is the TurnInfo one of a turn the configured level writes: a user turn at
\* the levels dst and dst_intent, a system turn at the level dst_intent_act
EmitsAt(ti) == ti.user_turn = (config.level \in {"dst", "dst_intent"})

\* the TurnInfos of the run whose turn the configured level writes, in order
EmittingFrames == SelectSeq(all_turns_per_frame, EmitsAt)

\* C19: write_examples emits a record for a TurnInfo exactly when its target at
\* the configured level is non-empty: once the examples are written there is
\* exactly one record, in order, for each user-turn frame and none for a
\* system-turn frame at the levels dst and dst_intent, and exactly one for each
\* system-turn frame and none for a user-turn frame at the level dst_intent_act.
C19_EmissionByLevel ==
    (prog = "sgd" /\ pc = "written") =>
        /\ \A n \in 1..Len(all_turns_per_frame) :
              (TargetAtLevel(config, all_turns_per_frame[n]) # "")
                 <=> EmitsAt(all_turns_per_frame[n])
        /\ Len(examples) = Len(EmittingFrames)
        /\ \A n \in 1..Len(examples) :
              /\ examples[n].dialogue_id = EmittingFrames[n].dialogue_id
              /\ examples[n].turn_id = EmittingFrames[n].turn_id
              /\ examples[n].frame_id = EmittingFrames[n].frame_id
              /\ examples[n].src = CollapseSpaces(EmittingFrames[n].out_ctx_with_desc_str)

\* C19's case: at the level dst_intent_act a user turn with two frames and a
\* system turn were collected, and the one record written is the system turn's
C19_Witness ==
    /\ prog = "sgd" /\ pc = "written"
    /\ config.level = "dst_intent_act"
    /\ Len(all_turns_per_frame) = 3
    /\ all_turns_per_frame[1].user_turn /\ all_turns_per_frame[2].user_turn
    /\ ~all_turns_per_frame[3].user_turn
    /\ Len(examples) = 1
    /\ examples[1].turn_id = all_turns_per_frame[3].turn_id
    /\ examples[1].tgt # ""

\* the domain of a domain-qualified slot or intent name
DomainOf(item) == SplitHead(item, "-")

\* the position of item, counted from 0, among the items of its own domain in
\* the schema's declaration order
PositionInDomain(keys, item) ==
    Cardinality({ j \in 1..Len(keys) :
                    j < IndexOf(item, keys) /\ DomainOf(keys[j]) = DomainOf(item) })

SgdDeclared == SchemaItems(RawSchema, "slots")

\* the slots as the MultiWOZ schema file declares them, under the names
\* load_schema gives them
MwDeclared ==
    UNION { { [name |-> Replace(MwRawSchema[i].slots[j].name, "book", ""),
               is_categorical |-> MwRawSchema[i].slots[j].is_categorical,
               possible_values |-> MwRawSchema[i].slots[j].possible_values] :
                j \in 1..Len(MwRawSchema[i].slots) } :
            i \in 1..Len(MwRawSchema) }

\* declared categorical with at least one possible value that is not all digits
StaysCategorical(slot) ==
    /\ slot.is_categorical
    /\ \E i \in 1..Len(slot.possible_values) : ~IsDigit(slot.possible_values[i])

\* declared categorical, and every possible value is all digits
Reclassified(slot) == slot.is_categorical /\ ~StaysCategorical(slot)

\* C21: after schema loading, in the SGD and in the MultiWOZ loader, a slot is
\* categorical exactly when the schema declares it categorical and one of its
\* possible values is not an all-digit string; a reclassified slot has no
\* possible values, and its description in a prompt never carries options.
C21_NumericReclassified ==
    /\ \A i \in 1..Len(SgdDeclared) :
          /\ item_desc.is_categorical[SgdDeclared[i].name] <=> StaysCategorical(SgdDeclared[i])
          /\ Reclassified(SgdDeclared[i]) =>
                item_desc.possible_values[SgdDeclared[i].name] = <<>>
    /\ \A slot \in MwDeclared :
          /\ MwSlot(slot.name).is_categorical <=> StaysCategorical(slot)
          /\ Reclassified(slot) => MwSlot(slot.name).possible_values = <<>>
    /\ SgdUserTurnDone =>
          \A k \in 1..Len(frame_locals) :
          \A i \in 1..Len(SgdDeclared) :
             (/\ Reclassified(SgdDeclared[i])
              /\ SgdDeclared[i].name \in DOMAIN frame_locals[k].desc_to_slot_id) =>
                /\ possible_values[SgdDeclared[i].name] = <<>>
                /\ frame_locals[k].state_dict.slot_desc[
                       frame_locals[k].desc_to_slot_id[SgdDeclared[i].name] + 1] =
                     SlotPrefix(config, frame_locals[k].desc_to_slot_id[SgdDeclared[i].name])
                     \o ItemDescription(config, item_desc.slots, SgdDeclared[i].name)
                     \o " "
    /\ MwExampleDone =>
          \A n \in 1..Len(frame_locals[1].slot_names) :
          \A slot \in MwDeclared :
             (Reclassified(slot) /\ slot.name = frame_locals[1].slot_names[n]) =>
                /\ IsSubstr(MwDescription(config, n - 1, slot.name),
                            examples[Len(examples)].src)
                /\ ~IsSubstr(MwDescription(config, n - 1, slot.name) \o " a) ",
                             examples[Len(examples)].src)
                /\ ~IsSubstr(MwDescription(config, n - 1, slot.name) \o " "
                             \o ToString(n - 1) \o "a) ",
                             examples[Len(examples)].src)

\* C21's case: with multiple choice, the SGD slot t1-seats (declared
\* categorical with the values 1 and 2) was rendered as slot 1 of a t1 frame
\* without options, next to nothing but its description
C21_Witness ==
    /\ SgdUserTurnDone
    /\ config.multiple_choice = "1a" /\ config.delimiter = "="
    /\ ~item_desc.is_categorical["t1-seats"]
    /\ \E k \in 1..Len(frame_locals) :
          /\ frame_locals[k].domain = "t1"
          /\ frame_locals[k].cumu_slots["t1-seats"] = "2"
          /\ frame_locals[k].state_dict.slot_desc[2] = " 1=number of seats "

\* the number of slots the frames before the k-th frame of the last turn rendered
RECURSIVE SlotsRenderedBefore(_)
SlotsRenderedBefore(k) ==
    IF k <= 1 THEN 0
    ELSE SlotsRenderedBefore(k - 1) + Len(frame_locals[k - 1].state_dict.slot_desc)

\* the number of intents the frames before the k-th frame of the last turn rendered
RECURSIVE IntentsRenderedBefore(_)
IntentsRenderedBefore(k) ==
    IF k <= 1 THEN 0
    ELSE IntentsRenderedBefore(k - 1) + Len(frame_locals[k - 1].state_dict.intent_desc)

\* C22: in a user turn with several frames, the ids given while a later frame
\* is rendered start at the number of items the earlier frames of the turn
\* rendered: its k-th slot has that number plus k - 1 as id, and so has its
\* k-th intent.
C22_IdsContinue ==
    SgdUserTurnDone =>
        \A k \in 1..Len(frame_locals) :
           /\ \A s \in DOMAIN frame_locals[k].desc_to_slot_id :
                 /\ frame_locals[k].desc_to_slot_id[s] >= SlotsRenderedBefore(k)
                 /\ frame_locals[k].desc_to_slot_id[s] <
                       SlotsRenderedBefore(k) + Len(frame_locals[k].state_dict.slot_desc)
           /\ \A n \in 1..Len(frame_locals[k].state_dict.intent_desc) :
                 IsSubstr(IntentPrefix(config, IntentsRenderedBefore(k) + n - 1),
                          frame_locals[k].state_dict.intent_desc[n])

\* the items among keys whose domain is exactly domain
ItemsOfDomain(keys, domain) ==
    { keys[i] : i \in { j \in 1..Len(keys) : DomainOf(keys[j]) = domain } }

\* C23: in every user-turn frame, only slots and intents whose domain is
\* exactly the frame's service are given an id and a description in the prompt,
\* also when the name of the service is contained in another service's name.
C23_OnlyActiveDomain ==
    SgdUserTurnDone =>
        \A k \in 1..Len(frame_locals) :
           /\ DOMAIN frame_locals[k].desc_to_slot_id =
                 ItemsOfDomain(item_desc.slot_keys, frame_locals[k].domain)
           /\ Len(frame_locals[k].state_dict.slot_desc) =
                 Cardinality(ItemsOfDomain(item_desc.slot_keys, frame_locals[k].domain))
           /\ Len(frame_locals[k].state_dict.intent_desc) =
                 Cardinality(ItemsOfDomain(item_desc.intent_keys, frame_locals[k].domain))

\* C24: rendering never modifies the loaded schema: after any turns, in any
\* configuration, every slot's list of possible values is, in content and
\* order, what load_schema produced.
C24_SchemaUnchanged ==
    prog = "sgd" =>
        \A slot \in DOMAIN item_desc.possible_values :
            possible_values[slot] = item_desc.possible_values[slot]

\* the last turn processed is the one user turn that sets h1-area to east, in a
\* run with the multiple choice prompt
EastWithOptions ==
    /\ prog = "sgd" /\ config.multiple_choice # "none"
    /\ turn.speaker = "user" /\ turn.frames = <<HotelEast>>

\* C25: a categorical slot is rendered with the multiple choice prompt whenever
\* it has at most 26 possible values: the turn is rejected only when there are
\* more than 26, and otherwise the i-th option in display order carries the
\* i-th letter of a-z.
C25_OptionCountBound ==
    EastWithOptions =>
        /\ pc = "error" => Len(possible_values["h1-area"]) > Len(ascii_lowercase)
        /\ (pc # "error" /\ frame_locals # <<>>) =>
              \A i \in 1..Len(possible_values["h1-area"]) :
                 IsSubstr(" " \o OptionPiece(config, 0, Letter(i), possible_values["h1-area"][i])
                          \o " ",
                          frame_locals[1].state_dict.slot_desc[1])

\* the last turn process_turn returned from was a system turn of the SGD run
SgdSystemTurnDone ==
    /\ prog = "sgd" /\ pc # "error" /\ turn.speaker = "system"
    /\ Len(all_turns_per_frame) >= Len(turn.frames)

\* the TurnInfo copied for the k-th frame of the last turn
FrameInfo(k) == all_turns_per_frame[Len(all_turns_per_frame) - Len(turn.frames) + k]

\* the acts of a frame of a system turn
ActsOf(frame) == { frame.actions[i].act : i \in 1..Len(frame.actions) }

\* C26: the TurnInfo of frame k of a turn holds only text derived from frame
\* k: in a system turn with several frames the action string of frame k lists
\* only the acts of frame k, and in a user turn the intent string of frame k
\* lists only the intent and the requested slots of frame k, after a state
\* string that starts once.
C26_FramesIndependent ==
    /\ SgdSystemTurnDone =>
          \A k \in 1..Len(turn.frames) :
             /\ Cardinality(Occurrences("[actions]", FrameInfo(k).out_act_str)) = 1
             /\ \A j \in 1..Len(turn.frames) :
                \A a \in ActsOf(turn.frames[j]) \ ActsOf(turn.frames[k]) :
                    ~IsSubstr(a \o "(", FrameInfo(k).out_act_str)
    /\ SgdUserTurnDone =>
          \A k \in 1..Len(frame_locals) :
             /\ LastTurnInfo(k).out_intent_str =
                   "[intents]" \o Concat(frame_locals[k].state_dict.intent_ids)
                   \o " [req_slots] " \o Join(" ", frame_locals[k].state_dict.req_slots)
             /\ SubSeq(LastTurnInfo(k).out_state_str, 1, 8) = "[states]"
             /\ ~IsSubstr("[states]",
                          SubSeq(LastTurnInfo(k).out_state_str, 2,
                                 Len(LastTurnInfo(k).out_state_str)))

\* the domain-qualified active intent of the k-th frame of the last turn
ActiveIntent(k) ==
    _merge_domain_slot(turn.frames[k].service, turn.frames[k].state.active_intent)

\* C27: in each user-turn frame at most one intent id is listed after
\* "[intents]"; one is listed exactly when the frame's active_intent names an
\* intent of the frame's domain in the schema, and it is written as "i{id}",
\* the identifier in front of the delimiter and that intent's description in
\* the prompt, whatever the delimiter.
C27_ActiveIntentMarking ==
    SgdUserTurnDone =>
        \A k \in 1..Len(frame_locals) :
           /\ Len(frame_locals[k].state_dict.intent_ids) <= 1
           /\ Len(frame_locals[k].state_dict.intent_ids) = 1
                 <=> ActiveIntent(k) \in ItemsOfDomain(item_desc.intent_keys,
                                                       frame_locals[k].domain)
           /\ Len(frame_locals[k].state_dict.intent_ids) = 1 =>
                 \E n \in 1..Len(frame_locals[k].state_dict.intent_desc) :
                    /\ Strip(frame_locals[k].state_dict.intent_ids[1]) =
                          "i" \o ToString(n - 1)
                    /\ frame_locals[k].state_dict.intent_desc[n] =
                          " i" \o ToString(n - 1) \o config.delimiter
                          \o ItemDescription(config, item_desc.intents, ActiveIntent(k))
                          \o " "

\* the section markers of a target, in the documented order
SectionMarkers == <<"[states]", "[intents]", "[req_slots]", "[actions]", "[response]">>

\* C28: every target the SGD generator writes, at every level and after any
\* turns, contains each section marker at most once and the markers it contains
\* in the order [states], [intents], [req_slots], [actions], [response]; at the
\* level dst_intent_act it contains [actions] and [response] once each.
C28_SectionMarkers ==
    (prog = "sgd" /\ pc = "written") =>
        \A n \in 1..Len(examples) :
           /\ \A i \in 1..Len(SectionMarkers) :
                 Cardinality(Occurrences(SectionMarkers[i], examples[n].tgt)) <= 1
           /\ \A i, j \in 1..Len(SectionMarkers) :
                 (/\ i < j
                  /\ IsSubstr(SectionMarkers[i], examples[n].tgt)
                  /\ IsSubstr(SectionMarkers[j], examples[n].tgt)) =>
                    Find(SectionMarkers[i], examples[n].tgt)
                       < Find(SectionMarkers[j], examples[n].tgt)
           /\ config.level = "dst_intent_act" =>
                 /\ Cardinality(Occurrences("[actions]", examples[n].tgt)) = 1
                 /\ Cardinality(Occurrences("[response]", examples[n].tgt)) = 1

\* the slots of slot_descriptions
DescribedSlots == { slot_descriptions[k][1] : k \in 1..Len(slot_descriptions) }

\* C29: every example of the MultiWOZ _process_one_turn has in its target
\* exactly one entry "{id}{delimiter}{values}" for each slot of the turn's
\* belief state, under the id the prompt of the same example gives the slot,
\* and no other entry; no example is made of a belief state with a slot the
\* prompt does not list. With use_active_domains_only the prompt lists exactly
\* the described slots of the domains active in the belief state.
C29_TargetComplete ==
    MwExampleDone =>
        /\ \A j \in 1..Len(frame_locals[1].belief_state) :
              InList(frame_locals[1].belief_state[j][1], frame_locals[1].slot_names)
        /\ Cardinality(Occurrences(config.delimiter, LastExample.tgt)) =
              Len(frame_locals[1].belief_state)
        /\ \A n \in 1..Len(frame_locals[1].slot_names) :
              /\ IsSubstr(MwDescription(config, n - 1, frame_locals[1].slot_names[n]),
                          LastExample.src)
              /\ HasKey(frame_locals[1].belief_state, frame_locals[1].slot_names[n])
                    <=> EntryAt(config.delimiter, n - 1, LastExample.tgt)
              /\ Cardinality(Occurrences(" " \o ToString(n - 1) \o config.delimiter,
                                         LastExample.tgt)) <= 1
        /\ Distinct(frame_locals[1].slot_names)
        /\ { frame_locals[1].slot_names[n] : n \in 1..Len(frame_locals[1].slot_names) } =
              IF config.use_active_domains_only
              THEN { name \in DescribedSlots :
                       get_domain(name) \in extract_domains(frame_locals[1].belief_state) }
              ELSE DescribedSlots

\* C29's case: with use_active_domains_only, a belief state with slots of both
\* domains, rendered with the train slot first: two entries under the ids of
\* the prompt
C29_Witness ==
    /\ MwExampleDone
    /\ config.use_active_domains_only /\ config.delimiter = ":"
    /\ frame_locals[1].belief_state =
          << <<"hotel-type", "dontcare">>, <<"train-people", "2">> >>
    /\ frame_locals[1].slot_names = <<"train-people", "hotel-type">>
    /\ LastExample.tgt = "[states] 0:2 1:dontcare [intents] [req_slots]"

\* C30: percentage sampling. Once the examples are written, with data_percent 0
\* every input record is there, in its order; with 0 < data_percent <= 1 there
\* are exactly floor(data_percent * N) of them, each an input record and no two
\* the same; and with uniform_domain_distribution the numbers of selected
\* records of any two domains that still have unused records differ by at most
\* one.
RecordKey(r) == <<r.dialogue_id, r.turn_id, r.frame_id>>

SelectedOf(domain) ==
    { i \in 1..Len(examples) :
        \E j \in 1..Len(all_turns_per_frame) :
           /\ RecordKey(all_turns_per_frame[j]) = RecordKey(examples[i])
           /\ all_turns_per_frame[j].turn_domain = domain }

RecordsOf(domain) ==
    { j \in 1..Len(all_turns_per_frame) : all_turns_per_frame[j].turn_domain = domain }

C30_PercentageSampling ==
    (prog = "sgd" /\ pc = "written") =>
       /\ config.data_percent = 0 =>
             /\ Len(examples) = Len(all_turns_per_frame)
             /\ \A i \in 1..Len(examples) :
                   RecordKey(examples[i]) = RecordKey(all_turns_per_frame[i])
       /\ config.data_percent > 0 =>
             /\ Len(examples) = OutSampleNum(config, all_turns_per_frame)
             /\ \A i \in 1..Len(examples) :
                   \E j \in 1..Len(all_turns_per_frame) :
                      RecordKey(all_turns_per_frame[j]) = RecordKey(examples[i])
             /\ \A i, j \in 1..Len(examples) :
                   RecordKey(examples[i]) = RecordKey(examples[j]) => i = j
       /\ (config.data_percent > 0 /\ config.uniform_domain_distribution) =>
             \A a, b \in { all_turns_per_frame[j].turn_domain : j \in 1..Len(all_turns_per_frame) } :
                (/\ Cardinality(SelectedOf(a)) < Cardinality(RecordsOf(a))
                 /\ Cardinality(SelectedOf(b)) < Cardinality(RecordsOf(b)))
                => Cardinality(SelectedOf(a)) - Cardinality(SelectedOf(b)) <= 1
====
